---- MODULE Spec2Model ----
(***************************************************************************)
(* Delivery core of yorin-node: the YorinClient batch queue, its flush     *)
(* timer, chunked submission and retryWithBackoff.                         *)
(*                                                                         *)
(* JavaScript runs one callback at a time.  Every action below is one      *)
(* synchronous section of the code: from the call of a public method (or   *)
(* the arrival of a response, or the expiry of a timeout) up to the next   *)
(* point where every affected async function is suspended on I/O.          *)
(***************************************************************************)
EXTENDS Integers, Sequences, FiniteSets, Bags, TLC

\* ----------------------------------------------------------------- bounds
MaxEvents == 3          \* events handed to the client over one behaviour
MaxBatchSize == 2       \* config.batchSize ranges over 1..MaxBatchSize
MaxRetryAttempts == 2   \* config.retryAttempts ranges over 0..MaxRetryAttempts
MaxBatchLen == 2        \* longest array passed to sendBatch in Spec
MaxInFlight == 2        \* submissions the environment lets overlap
MaxPlanLen == 4         \* RetrySpec: outcomes scripted for the operation
MaxArrayLen == 5        \* ArraySpec: longest array handed to chunkArray
MaxSize == 3            \* ArraySpec: largest chunk size handed to chunkArray

\* ------------------------------------------------------- program constants
MaxChunkSize == 1000    \* client.ts: events.length > 1000, chunkArray(events, 1000)
DefaultRetryDelay == 1000
DefaultBatchSize == 100
DefaultRetryAttempts == 3

\* ------------------------------------------------------------------ values
\* A thrown value: an Error with a message, or the value undefined.
Undefined == [kind |-> "undefined", message |-> << >>]
Error(m) == [kind |-> "Error", message |-> m]

\* 2^n, as Math.pow(2, n) for the small non-negative n of the retry loop
RECURSIVE Pow2(_)
Pow2(n) == IF n <= 0 THEN 1 ELSE 2 * Pow2(n - 1)

\* array.slice(from, to) with 0-based from, exclusive to, clamped to the length
slice(array, from, to) ==
  LET hi == IF to < Len(array) THEN to ELSE Len(array)
  IN  IF from >= hi THEN << >> ELSE SubSeq(array, from + 1, hi)

\* utils.ts chunkArray: for (i = 0; i < array.length; i += size) push(slice(i, i + size))
RECURSIVE chunkFrom(_, _, _)
chunkFrom(array, size, i) ==
  IF i < Len(array)
  THEN << slice(array, i, i + size) >> \o chunkFrom(array, size, i + size)
  ELSE << >>

chunkArray(array, size) == chunkFrom(array, size, 0)

\* --------------------------------------------------------- retryWithBackoff
\* The state of one call of retryWithBackoff: the loop index i, lastError, where
\* the call stands (calling fn, waiting in setTimeout, returned, thrown), the
\* value returned and the delay of the wait in progress.

\* utils.ts line 30: let lastError: any;
InitialLastError == Undefined

\* the other copy of utils.ts in the repository (its Logger prints [Aizu]):
\* let lastError: Error = new Error('All retry attempts failed')
InitialLastErrorAizu == Error(<< "All retry attempts failed" >>)

\* variant: the loop condition written i <= maxRetries
RetryLoopHeadOffByOne(r, maxRetries) ==
  IF r.i <= maxRetries
  THEN [r EXCEPT !.pc = "calling"]
  ELSE [r EXCEPT !.pc = "thrown"]

\* the loop head: for (...; i < maxRetries; ...), then throw lastError
RetryLoopHead(r, maxRetries) ==
  IF r.i < maxRetries
  THEN [r EXCEPT !.pc = "calling"]
  ELSE [r EXCEPT !.pc = "thrown"]

\* entry: lastError declared, i = 0, first test of the loop condition
RetryEnter(maxRetries, init) ==
  RetryLoopHead([i |-> 0, lastError |-> init, pc |-> "init",
                 result |-> "", delay |-> 0], maxRetries)

\* variant: the result is kept but the loop is not left
RetryResolveNoReturn(r, v) == [r EXCEPT !.pc = "waiting", !.result = v]

\* fn() resolved with v: return await fn()
RetryResolve(r, v) == [r EXCEPT !.pc = "returned", !.result = v]

\* the end of one wait (or no wait at all): i++, back to the loop head
RetryNextAttempt(r, maxRetries) ==
  RetryLoopHead([r EXCEPT !.i = r.i + 1, !.delay = 0], maxRetries)

\* variant: the failure of the last allowed attempt is not recorded
RetryRejectStale(r, e, maxRetries, initialDelay) ==
  IF r.i < maxRetries - 1
  THEN [r EXCEPT !.lastError = e, !.pc = "waiting",
                 !.delay = initialDelay * Pow2(r.i)]
  ELSE [r EXCEPT !.i = r.i + 1, !.delay = 0, !.pc = "thrown"]

\* variant: the delay grows linearly, initialDelay * (i + 1)
RetryRejectLinear(r, e, maxRetries, initialDelay) ==
  LET c == [r EXCEPT !.lastError = e]
  IN  IF r.i < maxRetries - 1
      THEN [c EXCEPT !.pc = "waiting", !.delay = initialDelay * (r.i + 1)]
      ELSE RetryNextAttempt(c, maxRetries)

\* fn() rejected with e: the catch block
RetryReject(r, e, maxRetries, initialDelay) ==
  LET c == [r EXCEPT !.lastError = e]
  IN  IF r.i < maxRetries - 1
      THEN [c EXCEPT !.pc = "waiting", !.delay = initialDelay * Pow2(r.i)]
      ELSE RetryNextAttempt(c, maxRetries)

\* ------------------------------------------------------------------- state
VARIABLES
  config,           \* ClientConfig: batchSize, enableBatching, retryAttempts, retryDelay
  eventBatch,       \* YorinClient.eventBatch, the live queue
  flushTimer,       \* YorinClient.flushTimer: TRUE while the interval is set, FALSE for null
  tasks,            \* every call of sendBatchInternal so far, finished ones included
  requests,         \* every fetch() issued so far: a bag of requests
  nextEvent,        \* number of events handed to the client so far (events are 1, 2, ...)
  sendEventResult,  \* sendEventResult[e]: state of the promise of the call sendEvent(e),
                    \* "none" for an event handed over by sendBatch
  run               \* RetrySpec: one stand-alone call of retryWithBackoff

clientVars == << config, eventBatch, flushTimer, tasks, requests, nextEvent,
                 sendEventResult >>
vars == << config, eventBatch, flushTimer, tasks, requests, nextEvent,
           sendEventResult, run >>

\* ---------------------------------------------------------------- transport
\* What the server (or the network) answers to one request: an HTTP response
\* with its status, its ok flag (status in 200..299), its text and the success
\* and message fields of its parsed body ("" for no message), or a rejection of
\* fetch itself.
HttpResponse(status, text, success, message) ==
  [kind |-> "http", ok |-> status \in 200..299, status |-> status, text |-> text,
   success |-> success, message |-> message]

OkResponse == HttpResponse(200, "Success", TRUE, "Success")
BadRequest == HttpResponse(400, "Bad Request", FALSE, "")
NetworkError == [kind |-> "network", ok |-> FALSE, status |-> 0, text |-> "",
                 success |-> FALSE, message |-> "Network error"]
\* no response received so far
NoResponse == [kind |-> "none", ok |-> FALSE, status |-> 0, text |-> "",
               success |-> FALSE, message |-> ""]
Responses == { OkResponse, NetworkError }

\* variant: the failure of a response that is not ok carries the text only
fetchAttemptTextOnly(resp) ==
  IF resp.kind = "network"
  THEN [ok |-> FALSE, error |-> Error(<< resp.message >>)]
  ELSE IF ~resp.ok
  THEN [ok |-> FALSE, error |-> Error(<< resp.text >>)]
  ELSE IF ~resp.success
  THEN [ok |-> FALSE,
        error |-> Error(<< IF resp.message # "" THEN resp.message
                           ELSE "Failed to send events" >>)]
  ELSE [ok |-> TRUE, error |-> Undefined]

\* variant: the success flag of the parsed body is not looked at
fetchAttemptIgnoresSuccess(resp) ==
  IF resp.kind = "network"
  THEN [ok |-> FALSE, error |-> Error(<< resp.message >>)]
  ELSE IF ~resp.ok
  THEN [ok |-> FALSE,
        error |-> Error(<< "HTTP ", ToString(resp.status), ": ", resp.text >>)]
  ELSE [ok |-> TRUE, error |-> Undefined]

\* client.ts 105-126, the operation retried: fetch, response.ok, result.success
fetchAttempt(resp) ==
  IF resp.kind = "network"
  THEN [ok |-> FALSE, error |-> Error(<< resp.message >>)]
  ELSE IF ~resp.ok
  THEN [ok |-> FALSE,
        error |-> Error(<< "HTTP ", ToString(resp.status), ": ", resp.text >>)]
  ELSE IF ~resp.success
  THEN [ok |-> FALSE,
        error |-> Error(<< IF resp.message # "" THEN resp.message
                           ELSE "Failed to send events" >>)]
  ELSE [ok |-> TRUE, error |-> Undefined]

\* variant: the body is always the array
PayloadAlwaysArray(events) == [shape |-> "array", events |-> events]

\* client.ts 102: const payload = events.length === 1 ? events[0] : events
Payload(events) ==
  [shape |-> IF Len(events) = 1 THEN "object" ELSE "array", events |-> events]

Request(t, i, payload) == [task |-> t, attempt |-> i, body |-> payload]

\* fetch(url, {body}): one more request on the wire
Issue(rq, req) == rq (+) SetToBag({req})

\* variant: destroy() without the .catch
PropagateNoCatch(origin) ==
  CASE origin = "timer" -> "unhandled"
    [] OTHER -> "raised"

\* Where a failure that exhausted its retries ends, by the operation that started
\* the submission: sendEvent, flush and sendBatch are awaited by their caller;
\* destroy attaches .catch (client.ts 71-73); the setInterval callback has no caller.
Propagate(origin) ==
  CASE origin = "destroy" -> "logged"
    [] origin = "timer" -> "unhandled"
    [] OTHER -> "raised"

\* variant: sendBatchInternal suspends once before it enters the retry loop, so
\* that the first request goes out in a later step
sendBatchInternalDeferred(ts, rq, origin, caller, events, rest) ==
  LET r0 == RetryEnter(config.retryAttempts, InitialLastError)
      r == IF r0.pc = "calling" THEN [r0 EXCEPT !.pc = "waiting", !.i = -1] ELSE r0
  IN  [tasks |-> Append(ts, [origin |-> origin, caller |-> caller, events |-> events,
                             payload |-> Payload(events), rest |-> rest, r |-> r,
                             response |-> NoResponse,
                             outcome |-> IF r.pc = "thrown" THEN Propagate(origin)
                                         ELSE "pending"]),
       requests |-> rq]

\* client.ts 100-135: sendBatchInternal(events) up to its first suspension.  rest
\* are the chunks sendBatch still has to submit once this one has succeeded.
sendBatchInternal(ts, rq, origin, caller, events, rest) ==
  LET r == RetryEnter(config.retryAttempts, InitialLastError)
      t == Len(ts) + 1
      payload == Payload(events)
  IN  [tasks |-> Append(ts, [origin |-> origin, caller |-> caller, events |-> events,
                             payload |-> payload, rest |-> rest, r |-> r,
                             response |-> NoResponse,
                             outcome |-> IF r.pc = "thrown" THEN Propagate(origin)
                                         ELSE "pending"]),
       requests |-> IF r.pc = "calling" THEN Issue(rq, Request(t, r.i, payload))
                    ELSE rq]

\* variant: the queue is not reset after the copy
flushBatchKeepsQueue(q, ts, rq, origin, caller) ==
  IF Len(q) = 0
  THEN [eventBatch |-> q, tasks |-> ts, requests |-> rq]
  ELSE LET s == sendBatchInternal(ts, rq, origin, caller, q, << >>)
       IN  [eventBatch |-> q, tasks |-> s.tasks, requests |-> s.requests]

\* variant: events aliases the queue (no copy) and the queue is emptied in place
flushBatchAliased(q, ts, rq, origin, caller) ==
  IF Len(q) = 0
  THEN [eventBatch |-> q, tasks |-> ts, requests |-> rq]
  ELSE LET s == sendBatchInternal(ts, rq, origin, caller, << >>, << >>)
       IN  [eventBatch |-> << >>, tasks |-> s.tasks, requests |-> s.requests]

\* client.ts 89-98: flushBatch on the queue q
flushBatch(q, ts, rq, origin, caller) ==
  IF Len(q) = 0
  THEN [eventBatch |-> q, tasks |-> ts, requests |-> rq]
  ELSE LET events == q
           s == sendBatchInternal(ts, rq, origin, caller, events, << >>)
       IN  [eventBatch |-> << >>, tasks |-> s.tasks, requests |-> s.requests]

\* variant: flush() submits the queue without looking at its length
flushUnguarded(q, ts, rq, origin) ==
  LET s == sendBatchInternal(ts, rq, origin, 0, q, << >>)
  IN  [eventBatch |-> << >>, tasks |-> s.tasks, requests |-> s.requests]

\* variant: flush() does nothing while a submission sleeps between attempts
flushBlockedByWait(q, ts, rq, origin) ==
  IF Len(q) > 0 /\ \A t \in DOMAIN ts : ts[t].r.pc # "waiting"
  THEN flushBatch(q, ts, rq, origin, 0)
  ELSE [eventBatch |-> q, tasks |-> ts, requests |-> rq]

\* client.ts 60-64: flush()
flush(q, ts, rq, origin) ==
  IF Len(q) > 0
  THEN flushBatch(q, ts, rq, origin, 0)
  ELSE [eventBatch |-> q, tasks |-> ts, requests |-> rq]

\* variant: an event arriving while a submission is under way is not queued
queueOrSendEventBusyDrop(e) ==
  IF ~config.enableBatching
  THEN LET s == sendBatchInternal(tasks, requests, "sendEvent", e, << e >>, << >>)
       IN  [eventBatch |-> eventBatch, tasks |-> s.tasks, requests |-> s.requests]
  ELSE IF \E t \in DOMAIN tasks : tasks[t].r.pc \in {"calling", "waiting"}
  THEN [eventBatch |-> eventBatch, tasks |-> tasks, requests |-> requests]
  ELSE LET q == Append(eventBatch, e)
       IN  IF Len(q) >= config.batchSize
           THEN flushBatch(q, tasks, requests, "sendEvent", e)
           ELSE [eventBatch |-> q, tasks |-> tasks, requests |-> requests]

\* variant: the event is put at the front of the queue (unshift for push)
queueOrSendEventUnshift(e) ==
  IF ~config.enableBatching
  THEN LET s == sendBatchInternal(tasks, requests, "sendEvent", e, << e >>, << >>)
       IN  [eventBatch |-> eventBatch, tasks |-> s.tasks, requests |-> s.requests]
  ELSE LET q == << e >> \o eventBatch
       IN  IF Len(q) >= config.batchSize
           THEN flushBatch(q, tasks, requests, "sendEvent", e)
           ELSE [eventBatch |-> q, tasks |-> tasks, requests |-> requests]

\* variant: the event is queued whether batching is enabled or not
queueOrSendEventAlwaysQueues(e) ==
  LET q == Append(eventBatch, e)
  IN  IF Len(q) >= config.batchSize
      THEN flushBatch(q, tasks, requests, "sendEvent", e)
      ELSE [eventBatch |-> q, tasks |-> tasks, requests |-> requests]

\* variant: the threshold test written length > batchSize
queueOrSendEventOffByOne(e) ==
  IF ~config.enableBatching
  THEN LET s == sendBatchInternal(tasks, requests, "sendEvent", e, << e >>, << >>)
       IN  [eventBatch |-> eventBatch, tasks |-> s.tasks, requests |-> s.requests]
  ELSE LET q == Append(eventBatch, e)
       IN  IF Len(q) > config.batchSize
           THEN flushBatch(q, tasks, requests, "sendEvent", e)
           ELSE [eventBatch |-> q, tasks |-> tasks, requests |-> requests]

\* client.ts 76-87: queueOrSendEvent(event)
queueOrSendEvent(e) ==
  IF ~config.enableBatching
  THEN LET s == sendBatchInternal(tasks, requests, "sendEvent", e, << e >>, << >>)
       IN  [eventBatch |-> eventBatch, tasks |-> s.tasks, requests |-> s.requests]
  ELSE LET q == Append(eventBatch, e)
       IN  IF Len(q) >= config.batchSize
           THEN flushBatch(q, tasks, requests, "sendEvent", e)
           ELSE [eventBatch |-> q, tasks |-> tasks, requests |-> requests]

\* variant: sendBatch without the test for an empty array
sendBatchNoEmptyTest(ts, rq, events) ==
  IF Len(events) > MaxChunkSize
  THEN LET chunks == chunkArray(events, MaxChunkSize)
       IN  sendBatchInternal(ts, rq, "sendBatch", 0, Head(chunks), Tail(chunks))
  ELSE sendBatchInternal(ts, rq, "sendBatch", 0, events, << >>)

\* variant: sendBatch starts the submissions of all chunks at once
RECURSIVE submitAll(_, _, _)
submitAll(ts, rq, chunks) ==
  IF chunks = << >>
  THEN [tasks |-> ts, requests |-> rq]
  ELSE LET s == sendBatchInternal(ts, rq, "sendBatch", 0, Head(chunks), << >>)
       IN  submitAll(s.tasks, s.requests, Tail(chunks))

sendBatchParallel(ts, rq, events) ==
  IF Len(events) = 0
  THEN [tasks |-> ts, requests |-> rq]
  ELSE submitAll(ts, rq, chunkArray(events, MaxChunkSize))

\* variant: sendBatch hands the whole array to sendBatchInternal
sendBatchUnchunked(ts, rq, events) ==
  IF Len(events) = 0
  THEN [tasks |-> ts, requests |-> rq]
  ELSE sendBatchInternal(ts, rq, "sendBatch", 0, events, << >>)

\* client.ts 42-58: sendBatch(events) up to its first suspension; the chunks after
\* the first are submitted as their predecessors return (Continue)
sendBatch(ts, rq, events) ==
  IF Len(events) = 0
  THEN [tasks |-> ts, requests |-> rq]
  ELSE IF Len(events) > MaxChunkSize
  THEN LET chunks == chunkArray(events, MaxChunkSize)
       IN  sendBatchInternal(ts, rq, "sendBatch", 0, Head(chunks), Tail(chunks))
  ELSE sendBatchInternal(ts, rq, "sendBatch", 0, events, << >>)

\* variant: the operation does not await the submission it started
CallResultNotAwaited(ts) == "resolved"

\* What the caller of an operation holds once the synchronous section is over: the
\* promise is settled when no submission was started, and follows the submission
\* the operation started otherwise.
CallResult(ts) ==
  IF Len(ts) = Len(tasks) THEN "resolved"
  ELSE LET o == ts[Len(ts)].outcome
       IN  IF o = "pending" THEN "pending" ELSE IF o = "raised" THEN "rejected" ELSE o

\* submissions whose retry loop has not ended
InFlight == { t \in DOMAIN tasks : tasks[t].r.pc \in {"calling", "waiting"} }

\* The environment starts no further submission while MaxInFlight are under way.
MayStart(ts) == Len(ts) = Len(tasks) \/ Cardinality(InFlight) < MaxInFlight

\* ------------------------------------------------------------------ actions
\* variant: sendEvent starts the timer again when there is none
sendEventRestartsTimer(limit) ==
  /\ nextEvent < limit
  /\ LET e == nextEvent + 1
         s == queueOrSendEvent(e)
     IN  /\ MayStart(s.tasks)
         /\ nextEvent' = e
         /\ eventBatch' = s.eventBatch
         /\ tasks' = s.tasks
         /\ requests' = s.requests
         /\ sendEventResult' = Append(sendEventResult, CallResult(s.tasks))
  /\ flushTimer' = config.enableBatching
  /\ UNCHANGED << config, run >>

\* client.ts 37-40: sendEvent(event), for an application that sends limit events
sendEvent(limit) ==
  /\ nextEvent < limit
  /\ LET e == nextEvent + 1
         s == queueOrSendEvent(e)
     IN  /\ MayStart(s.tasks)
         /\ nextEvent' = e
         /\ eventBatch' = s.eventBatch
         /\ tasks' = s.tasks
         /\ requests' = s.requests
         /\ sendEventResult' = Append(sendEventResult, CallResult(s.tasks))
  /\ UNCHANGED << config, flushTimer, run >>

SendEvent == sendEvent(MaxEvents)

\* variant: sendBatch puts its events behind the queued ones and flushes the queue
SendBatchOfViaQueue(n) ==
  /\ LET events == [k \in 1..n |-> nextEvent + k]
         s == IF n = 0
              THEN [eventBatch |-> eventBatch, tasks |-> tasks, requests |-> requests]
              ELSE flushBatch(eventBatch \o events, tasks, requests, "sendBatch", 0)
     IN  /\ MayStart(s.tasks)
         /\ nextEvent' = nextEvent + n
         /\ eventBatch' = s.eventBatch
         /\ tasks' = s.tasks
         /\ requests' = s.requests
         /\ sendEventResult' = sendEventResult \o [k \in 1..n |-> "none"]
  /\ UNCHANGED << config, flushTimer, run >>

\* client.ts 42-58: sendBatch(events), called with n fresh events
SendBatchOf(n) ==
  /\ LET events == [k \in 1..n |-> nextEvent + k]
         s == sendBatch(tasks, requests, events)
     IN  /\ MayStart(s.tasks)
         /\ nextEvent' = nextEvent + n
         /\ tasks' = s.tasks
         /\ requests' = s.requests
         /\ sendEventResult' = sendEventResult \o [k \in 1..n |-> "none"]
  /\ UNCHANGED << config, eventBatch, flushTimer, run >>

\* the application calls sendBatch once in a behaviour
SendBatch ==
  \E n \in 0..MaxBatchLen :
    /\ nextEvent + n <= MaxEvents
    /\ \A t \in DOMAIN tasks : tasks[t].origin # "sendBatch"
    /\ SendBatchOf(n)

\* client.ts 60-64: flush() called by the application
Flush ==
  /\ LET s == flush(eventBatch, tasks, requests, "flush")
     IN  /\ MayStart(s.tasks)
         /\ eventBatch' = s.eventBatch
         /\ tasks' = s.tasks
         /\ requests' = s.requests
  /\ UNCHANGED << config, flushTimer, nextEvent, sendEventResult, run >>

\* variant: destroy() clears the timer and does not flush
DestroyNoFlush ==
  /\ flushTimer' = FALSE
  /\ UNCHANGED << config, eventBatch, tasks, requests, nextEvent, sendEventResult,
                  run >>

\* variant: destroy() flushes and leaves the interval running
DestroyKeepsTimer ==
  /\ LET s == flush(eventBatch, tasks, requests, "destroy")
     IN  /\ MayStart(s.tasks)
         /\ eventBatch' = s.eventBatch
         /\ tasks' = s.tasks
         /\ requests' = s.requests
  /\ UNCHANGED << config, flushTimer, nextEvent, sendEventResult, run >>

\* variant: destroy() aborts the submissions under way before its final flush
DestroyAborts ==
  /\ flushTimer' = FALSE
  /\ LET aborted == [t \in DOMAIN tasks |->
                       IF tasks[t].r.pc \in {"calling", "waiting"}
                       THEN [tasks[t] EXCEPT !.r.pc = "thrown",
                                             !.outcome = Propagate(tasks[t].origin)]
                       ELSE tasks[t]]
         s == flush(eventBatch, aborted, requests, "destroy")
     IN  /\ MayStart(s.tasks)
         /\ eventBatch' = s.eventBatch
         /\ tasks' = s.tasks
         /\ requests' = s.requests
  /\ UNCHANGED << config, nextEvent, sendEventResult, run >>

\* client.ts 66-74: destroy()
Destroy ==
  /\ flushTimer' = FALSE
  /\ LET s == flush(eventBatch, tasks, requests, "destroy")
     IN  /\ MayStart(s.tasks)
         /\ eventBatch' = s.eventBatch
         /\ tasks' = s.tasks
         /\ requests' = s.requests
  /\ UNCHANGED << config, nextEvent, sendEventResult, run >>

\* variant: the callback submits the queue and leaves it as it is
timerCallbackKeepsQueue(q, ts, rq) ==
  IF Len(q) > 0
  THEN flushBatchKeepsQueue(q, ts, rq, "timer", 0)
  ELSE [eventBatch |-> q, tasks |-> ts, requests |-> rq]

\* client.ts 142-149: the body of the setInterval callback on the queue q
timerCallback(q, ts, rq) ==
  IF Len(q) > 0
  THEN flushBatch(q, ts, rq, "timer", 0)
  ELSE [eventBatch |-> q, tasks |-> ts, requests |-> rq]

\* variant: the timer fires once (setTimeout for setInterval)
TimerTickOneShot ==
  /\ flushTimer
  /\ flushTimer' = FALSE
  /\ LET s == timerCallback(eventBatch, tasks, requests)
     IN  /\ MayStart(s.tasks)
         /\ eventBatch' = s.eventBatch
         /\ tasks' = s.tasks
         /\ requests' = s.requests
  /\ UNCHANGED << config, nextEvent, sendEventResult, run >>

\* variant: a tick does nothing while an earlier submission is under way
TimerTickSuppressed ==
  /\ flushTimer
  /\ LET s == IF Len(eventBatch) > 0 /\ InFlight = {}
              THEN flushBatch(eventBatch, tasks, requests, "timer", 0)
              ELSE [eventBatch |-> eventBatch, tasks |-> tasks, requests |-> requests]
     IN  /\ MayStart(s.tasks)
         /\ eventBatch' = s.eventBatch
         /\ tasks' = s.tasks
         /\ requests' = s.requests
  /\ UNCHANGED << config, flushTimer, nextEvent, sendEventResult, run >>

\* client.ts 142-149: one firing of the setInterval callback
TimerTick ==
  /\ flushTimer
  /\ LET s == timerCallback(eventBatch, tasks, requests)
     IN  /\ MayStart(s.tasks)
         /\ eventBatch' = s.eventBatch
         /\ tasks' = s.tasks
         /\ requests' = s.requests
  /\ UNCHANGED << config, flushTimer, nextEvent, sendEventResult, run >>

\* variant: sendBatch goes on with the next chunk whether or not this one failed
ContinuePastFailure(t, r2, resp) ==
  LET task == tasks[t]
      out == CASE r2.pc \in {"thrown", "returned"} ->
                    IF task.rest = << >>
                    THEN IF r2.pc = "thrown" THEN Propagate(task.origin) ELSE "resolved"
                    ELSE "next"
               [] OTHER -> "pending"
      ts1 == [tasks EXCEPT ![t] = [task EXCEPT !.r = r2, !.response = resp,
                                                !.outcome = out]]
      rq1 == IF r2.pc = "calling"
             THEN Issue(requests, Request(t, r2.i, task.payload))
             ELSE requests
      s == IF out = "next"
           THEN sendBatchInternal(ts1, rq1, task.origin, task.caller,
                                  Head(task.rest), Tail(task.rest))
           ELSE [tasks |-> ts1, requests |-> rq1]
  IN  /\ tasks' = s.tasks
      /\ requests' = s.requests
      /\ sendEventResult' = sendEventResult

\* The retry loop of submission t, whose latest attempt was answered by resp,
\* moves on to r2: a further request when it calls fn again; when it returns, sendBatch's next chunk (client.ts 51-53) or the
\* resolution of the caller's promise; when it throws, the rejection (client.ts
\* 131-134) handed on by Propagate.
Continue(t, r2, resp) ==
  LET task == tasks[t]
      out == CASE r2.pc = "thrown" -> Propagate(task.origin)
               [] r2.pc = "returned" ->
                    IF task.rest = << >> THEN "resolved" ELSE "next"
               [] OTHER -> "pending"
      ts1 == [tasks EXCEPT ![t] = [task EXCEPT !.r = r2, !.response = resp,
                                                !.outcome = out]]
      rq1 == IF r2.pc = "calling"
             THEN Issue(requests, Request(t, r2.i, task.payload))
             ELSE requests
      s == IF out = "next"
           THEN sendBatchInternal(ts1, rq1, task.origin, task.caller,
                                  Head(task.rest), Tail(task.rest))
           ELSE [tasks |-> ts1, requests |-> rq1]
  IN  /\ tasks' = s.tasks
      /\ requests' = s.requests
      /\ sendEventResult' =
           IF task.origin = "sendEvent" /\ out \in {"resolved", "raised"}
           THEN [sendEventResult EXCEPT ![task.caller] =
                   IF out = "resolved" THEN "resolved" ELSE "rejected"]
           ELSE sendEventResult

\* variant: a batch whose retries are used up is put back at the head of the queue
RespondWithRequeue(t, resp) ==
  /\ tasks[t].r.pc = "calling"
  /\ LET a == fetchAttempt(resp)
         r2 == IF a.ok
               THEN RetryResolve(tasks[t].r, "void")
               ELSE RetryReject(tasks[t].r, a.error, config.retryAttempts,
                                config.retryDelay)
     IN  /\ Continue(t, r2, resp)
         /\ eventBatch' = IF r2.pc = "thrown" /\ config.enableBatching
                          THEN tasks[t].events \o eventBatch
                          ELSE eventBatch
  /\ UNCHANGED << config, flushTimer, nextEvent, run >>

\* the response resp to the request in flight of submission t arrives
RespondWith(t, resp) ==
  /\ tasks[t].r.pc = "calling"
  /\ LET a == fetchAttempt(resp)
         r2 == IF a.ok
               THEN RetryResolve(tasks[t].r, "void")
               ELSE RetryReject(tasks[t].r, a.error, config.retryAttempts,
                                config.retryDelay)
     IN  Continue(t, r2, resp)
  /\ UNCHANGED << config, eventBatch, flushTimer, nextEvent, run >>

Respond == \E t \in DOMAIN tasks, resp \in Responses : RespondWith(t, resp)

\* utils.ts 39: the setTimeout of the backoff wait of submission t fires
BackoffElapsed ==
  \E t \in DOMAIN tasks :
    /\ tasks[t].r.pc = "waiting"
    /\ Continue(t, RetryNextAttempt(tasks[t].r, config.retryAttempts),
                tasks[t].response)
    /\ UNCHANGED << config, eventBatch, flushTimer, nextEvent, run >>

\* ----------------------------------------------------------- specification
NoRun == [phase |-> "none"]

\* client.ts 23-35: the constructor, for every configuration within the bounds
ClientInit(batching) ==
  /\ config \in [batchSize : 1..MaxBatchSize, enableBatching : batching,
                 retryAttempts : 0..MaxRetryAttempts,
                 retryDelay : {DefaultRetryDelay}]
  /\ eventBatch = << >>
  /\ flushTimer = config.enableBatching
  /\ tasks = << >>
  /\ requests = EmptyBag
  /\ nextEvent = 0
  /\ sendEventResult = << >>

Init ==
  /\ ClientInit({TRUE})
  /\ run = NoRun

Next ==
  \/ SendEvent
  \/ Flush
  \/ Destroy
  \/ TimerTick
  \/ Respond
  \/ BackoffElapsed

Spec == Init /\ [][Next]_vars

\* the client of an application that calls sendEvent, sendBatch and flush while the
\* timer ticks, and has not called destroy
NextWithBatch ==
  \/ SendEvent
  \/ SendBatch
  \/ Flush
  \/ TimerTick
  \/ Respond
  \/ BackoffElapsed

BatchSpec == Init /\ [][NextWithBatch]_vars

\* a client that is not destroyed: sendEvent and flush calls that are not awaited,
\* while the timer ticks
LiveNext ==
  \/ SendEvent
  \/ Flush
  \/ TimerTick
  \/ Respond
  \/ BackoffElapsed

LiveSpec == Init /\ [][LiveNext]_vars

\* a client shut down while it works: sendEvent and destroy calls that are not
\* awaited, no manual flush and no tick
ShutdownNext ==
  \/ SendEvent
  \/ Destroy
  \/ Respond
  \/ BackoffElapsed

ShutdownSpec == Init /\ [][ShutdownNext]_vars

\* a client that is not destroyed, whose timer keeps ticking (setInterval), whose
\* requests are all answered in the end and whose backoff timeouts all fire
TickingNext ==
  \/ SendEvent
  \/ TimerTick
  \/ Respond
  \/ BackoffElapsed

TickingSpec ==
  /\ Init
  /\ [][TickingNext]_vars
  /\ WF_vars(TimerTick)
  /\ WF_vars(Respond)
  /\ WF_vars(BackoffElapsed)

\* ------------------------------------- the caller's array (AliasSpec)
\* sendBatch hands the array it was given to sendBatchInternal as it is (client.ts
\* 57), and for any length but 1 the payload is that very array (client.ts 102),
\* serialised anew by each attempt (client.ts 112).  The payload field of such a
\* submission is therefore the caller's array as it stands now, while events is
\* what it held when the call was made.  Arrays over 1000 events are sliced by
\* chunkArray and single events are taken out of the array.
Aliased(t) ==
  /\ tasks[t].origin = "sendBatch"
  /\ tasks[t].payload.shape = "array"
  /\ nextEvent <= MaxChunkSize

\* the application removes the last element of the array it passed to sendBatch
\* while the call is in flight: events.pop()
CallerPops ==
  /\ \E t \in InFlight :
       /\ Aliased(t)
       /\ Len(tasks[t].payload.events) >= 1
       /\ tasks' = [tasks EXCEPT ![t].payload.events = SubSeq(@, 1, Len(@) - 1)]
  /\ UNCHANGED << config, eventBatch, flushTimer, requests, nextEvent,
                  sendEventResult, run >>

AliasNext ==
  \/ SendEvent
  \/ SendBatch
  \/ CallerPops
  \/ TimerTick
  \/ Respond
  \/ BackoffElapsed

AliasSpec == Init /\ [][AliasNext]_vars

\* ----------------------------------------------- every path (PathSpec)
\* A client with or without batching whose application uses every operation --
\* sendEvent, sendBatch, flush, destroy -- and awaits each call before it makes
\* the next, while the timer ticks at any moment.
Awaited == InFlight = {}

PathInit ==
  /\ ClientInit(BOOLEAN)
  /\ run = NoRun

PathSendEvent == Awaited /\ SendEvent

PathSendBatch == Awaited /\ SendBatch

PathFlush == Awaited /\ Flush

PathDestroy == Awaited /\ Destroy

PathNext ==
  \/ PathSendEvent
  \/ PathSendBatch
  \/ PathFlush
  \/ PathDestroy
  \/ TimerTick
  \/ Respond
  \/ BackoffElapsed

PathSpec == PathInit /\ [][PathNext]_vars

\* ------------------------------------------- no batching (DirectSpec)
\* A client constructed with enableBatching = false, whose application calls
\* sendEvent, flush and destroy in any order and without awaiting.
DirectInit ==
  /\ ClientInit({FALSE})
  /\ run = NoRun

DirectNext ==
  \/ SendEvent
  \/ Flush
  \/ Destroy
  \/ Respond
  \/ BackoffElapsed

DirectSpec == DirectInit /\ [][DirectNext]_vars

\* ------------------------------------------- responses (TransportSpec)
\* A client without batching whose application sends one event, and a server
\* that answers each request with any of: success, a success flag of
\* false with and without a message, client and server errors, or no answer at all.
TransportResponses ==
  { HttpResponse(200, "Success", TRUE, "Success"),
    HttpResponse(201, "Created", TRUE, ""),
    HttpResponse(200, "Success", FALSE, "Invalid event"),
    HttpResponse(200, "Success", FALSE, ""),
    HttpResponse(400, "Bad Request", FALSE, ""),
    HttpResponse(500, "", FALSE, ""),
    HttpResponse(503, "Service Unavailable", FALSE, ""),
    HttpResponse(199, "Early", TRUE, "Success"),
    HttpResponse(300, "Multiple Choices", TRUE, "Success"),
    NetworkError }

TransportInit ==
  /\ ClientInit({FALSE})
  /\ run = NoRun

TransportSendEvent == nextEvent = 0 /\ SendEvent

TransportRespond ==
  \E t \in DOMAIN tasks, resp \in TransportResponses : RespondWith(t, resp)

TransportNext ==
  \/ TransportSendEvent
  \/ TransportRespond
  \/ BackoffElapsed

TransportSpec == TransportInit /\ [][TransportNext]_vars

\* ------------------------------------- the public client (ConstructSpec)
\* new Yorin(config) with the environment env.  Strings that the constructor
\* inspects are sequences: a key is a sequence of characters, a URL a sequence of
\* its parts (scheme, ":", "//", host); the empty sequence is the empty string
\* or an absent value, which || treats alike.  An option read with ?? is a record
\* saying whether it was given.
Given(v) == [given |-> TRUE, value |-> v]

Nullish(opt, default) == IF opt.given THEN opt.value ELSE default

\* a || b on strings
OrElse(a, b) == IF a # << >> THEN a ELSE b

\* String.prototype.startsWith
startsWith(str, prefix) ==
  Len(str) >= Len(prefix) /\ SubSeq(str, 1, Len(prefix)) = prefix

\* variant: any non-empty key is accepted
validateSecretKeyNonEmpty(key) == key # << >>

\* utils.ts 47-52
validateSecretKey(key) ==
  IF key = << >> THEN FALSE ELSE startsWith(key, << "s", "k", "_" >>)

\* new URL(u) without a base: it needs a scheme followed by ":", and a host when
\* the scheme is http or https; FALSE when the constructor throws
UrlParses(u) ==
  /\ Len(u) >= 2
  /\ u[1] \in {"http", "https", "mailto"}
  /\ u[2] = ":"
  /\ u[1] \in {"http", "https"} => (Len(u) >= 4 /\ u[3] = "//" /\ u[4] # "")

DefaultApiUrl == << "https", ":", "//", "ingest.yorin.io" >>

\* index.ts 34-70: the constructor of Yorin, up to new YorinClient(clientConfig)
YorinConstructor(cfg, env) ==
  LET secretKey == OrElse(cfg.secretKey, env.secretKey)
      apiUrl == OrElse(OrElse(cfg.apiUrl, env.apiUrl), DefaultApiUrl)
  IN  IF secretKey = << >>
      THEN [ok |-> FALSE, error |-> Error(<< "Yorin secret key is required" >>)]
      ELSE IF ~validateSecretKey(secretKey)
      THEN [ok |-> FALSE, error |-> Error(<< "Invalid secret key format" >>)]
      ELSE IF ~UrlParses(apiUrl)
      THEN [ok |-> FALSE, error |-> Error(<< "Invalid API URL format" >>)]
      ELSE [ok |-> TRUE, error |-> Undefined,
            clientConfig |->
              [batchSize |-> Nullish(cfg.batchSize, DefaultBatchSize),
               enableBatching |-> Nullish(cfg.enableBatching, TRUE),
               retryAttempts |-> Nullish(cfg.retryAttempts, DefaultRetryAttempts),
               retryDelay |-> DefaultRetryDelay]]

SecretKeys == { << >>, << "k", "e", "y" >>, << "s", "k" >>, << "x", "s", "k", "_" >>,
                << "S", "K", "_", "1" >>, << "s", "k", "_", "1" >> }

ApiUrls == { << >>, << "not-a-url" >>, << "https", ":", "//", "" >>,
             << "https", ":", "//", "valid.url.com" >>, << "mailto", ":", "a@b" >> }

\* no client exists; the client variables hold no object
ConstructInit ==
  /\ run \in [phase : {"new"},
              cfg : [secretKey : SecretKeys, apiUrl : ApiUrls,
                     batchSize : {[given |-> FALSE, value |-> 0], Given(1)},
                     enableBatching : {[given |-> FALSE, value |-> FALSE],
                                       Given(FALSE)},
                     retryAttempts : {[given |-> FALSE, value |-> 0], Given(1)}],
              env : [secretKey : {<< >>, << "s", "k", "_", "e" >>},
                     apiUrl : {<< >>, << "not-a-url" >>}],
              error : {Undefined}]
  /\ config = [batchSize |-> 1, enableBatching |-> FALSE, retryAttempts |-> 0,
               retryDelay |-> DefaultRetryDelay]
  /\ eventBatch = << >>
  /\ flushTimer = FALSE
  /\ tasks = << >>
  /\ requests = EmptyBag
  /\ nextEvent = 0
  /\ sendEventResult = << >>

\* new Yorin(cfg): it throws, or it creates the YorinClient (client.ts 23-35),
\* whose constructor starts the timer
YorinNew ==
  /\ run.phase = "new"
  /\ LET c == YorinConstructor(run.cfg, run.env)
     IN  IF c.ok
         THEN /\ run' = [run EXCEPT !.phase = "constructed"]
              /\ config' = c.clientConfig
              /\ flushTimer' = c.clientConfig.enableBatching
         ELSE /\ run' = [run EXCEPT !.phase = "failed", !.error = c.error]
              /\ UNCHANGED << config, flushTimer >>
  /\ UNCHANGED << eventBatch, tasks, requests, nextEvent, sendEventResult >>

\* the operations of the object, once there is one
Constructed == run.phase = "constructed"

YorinSendEvent == Constructed /\ Awaited /\ SendEvent

YorinTimerTick == Constructed /\ TimerTick

YorinDestroy == Constructed /\ Awaited /\ Destroy

YorinRespond == Constructed /\ Respond

YorinBackoffElapsed == Constructed /\ BackoffElapsed

ConstructNext ==
  \/ YorinNew
  \/ YorinSendEvent
  \/ YorinTimerTick
  \/ YorinDestroy
  \/ YorinRespond
  \/ YorinBackoffElapsed

ConstructSpec == ConstructInit /\ [][ConstructNext]_vars

\* ------------------------------------------------- large queues (BigSpec)
\* A client whose batchSize lies above the 1000 ceiling, so that the queue can
\* hold more than MaxChunkSize events before the size trigger drains it.  The
\* application sends BigEvents events; timer ticks, flush() and destroy() are
\* followed from the moment the queue is longer than MaxChunkSize.
BigEvents == MaxChunkSize + 2

BigInit ==
  /\ config = [batchSize |-> BigEvents, enableBatching |-> TRUE,
               retryAttempts |-> 2, retryDelay |-> DefaultRetryDelay]
  /\ eventBatch = << >>
  /\ flushTimer = config.enableBatching
  /\ tasks = << >>
  /\ requests = EmptyBag
  /\ nextEvent = 0
  /\ sendEventResult = << >>
  /\ run = NoRun

BigSendEvent == sendEvent(BigEvents)

BigFlush == Len(eventBatch) > MaxChunkSize /\ Flush

BigTimerTick == Len(eventBatch) > MaxChunkSize /\ TimerTick

BigDestroy == Len(eventBatch) > MaxChunkSize /\ Destroy

BigNext ==
  \/ BigSendEvent
  \/ BigFlush
  \/ BigTimerTick
  \/ BigDestroy
  \/ Respond
  \/ BackoffElapsed

BigSpec == BigInit /\ [][BigNext]_vars

\* ------------------------------------------- large arrays (ChunkSpec)
\* One call of sendBatch with an array longer than the 1000 ceiling, on a fresh
\* client of any configuration: one and two events over one chunk, 1500 events,
\* and one and two events over two chunks.
ChunkLengths == { MaxChunkSize + 1, MaxChunkSize + 2, 1500, 2 * MaxChunkSize + 1,
                  2 * MaxChunkSize + 2 }

ChunkInit ==
  /\ ClientInit(BOOLEAN)
  /\ run = NoRun

ChunkSendBatch ==
  \E n \in ChunkLengths :
    /\ nextEvent = 0
    /\ SendBatchOf(n)

ChunkNext ==
  \/ ChunkSendBatch
  \/ Respond
  \/ BackoffElapsed

ChunkSpec == ChunkInit /\ [][ChunkNext]_vars

\* ------------------------------------------- chunkArray alone (ArraySpec)
\* One call chunkArray(array, size) with size >= 1, followed through its for
\* loop: run.i is the loop index and run.chunks the array being built.
ArrayElements == {"a", "b"}

Arrays == UNION { [1..n -> ArrayElements] : n \in 0..MaxArrayLen }

ArrayInit ==
  /\ run \in [phase : {"loop"}, array : Arrays, size : 1..MaxSize,
              i : {0}, chunks : {<< >>}]
  /\ config = [batchSize |-> 1, enableBatching |-> FALSE, retryAttempts |-> 0,
               retryDelay |-> DefaultRetryDelay]
  /\ eventBatch = << >>
  /\ flushTimer = config.enableBatching
  /\ tasks = << >>
  /\ requests = EmptyBag
  /\ nextEvent = 0
  /\ sendEventResult = << >>

\* variant: the loop index advances by one, i++ for i += size
chunkArrayStepByOne(c) ==
  [c EXCEPT !.chunks = Append(@, slice(c.array, c.i, c.i + c.size)),
            !.i = @ + 1]

\* utils.ts 56-58: one pass of the loop body, chunks.push(array.slice(i, i + size))
\* and then i += size
chunkArrayStep(c) ==
  [c EXCEPT !.chunks = Append(@, slice(c.array, c.i, c.i + c.size)),
            !.i = @ + c.size]

\* the loop condition i < array.length holds
ChunkArrayIterate ==
  /\ run.phase = "loop"
  /\ run.i < Len(run.array)
  /\ run' = chunkArrayStep(run)
  /\ UNCHANGED clientVars

\* the loop condition fails: return chunks
ChunkArrayReturn ==
  /\ run.phase = "loop"
  /\ ~(run.i < Len(run.array))
  /\ run' = [run EXCEPT !.phase = "returned"]
  /\ UNCHANGED clientVars

ArrayNext ==
  \/ ChunkArrayIterate
  \/ ChunkArrayReturn

\* the loop is synchronous code: it is never left half-way
ArraySpec == ArrayInit /\ [][ArrayNext]_vars /\ WF_vars(ArrayNext)

\* ------------------------------------- retryWithBackoff alone (RetrySpec)
\* One call retryWithBackoff(fn, maxRetries, initialDelay) where the k-th
\* invocation of fn settles as plan[k]: it resolves with a value or rejects with
\* an error.  invoked counts the invocations of fn, waits lists the delays of the
\* setTimeout calls that have fired.
Outcomes == { [ok |-> TRUE, value |-> "success", error |-> Undefined],
              [ok |-> TRUE, value |-> "other", error |-> Undefined],
              [ok |-> FALSE, value |-> "", error |-> Error(<< "failure A" >>)],
              [ok |-> FALSE, value |-> "", error |-> Error(<< "failure B" >>)] }

RetryInit ==
  /\ run \in [phase : {"ready"}, maxRetries : 0..MaxPlanLen,
              initialDelay : {0, DefaultRetryDelay},
              init : {InitialLastError, InitialLastErrorAizu},
              plan : [1..MaxPlanLen -> Outcomes],
              r : {[i |-> 0, lastError |-> Undefined, pc |-> "init",
                    result |-> "", delay |-> 0]},
              invoked : {0}, waits : {<< >>}]
  /\ config = [batchSize |-> 1, enableBatching |-> FALSE, retryAttempts |-> 0,
               retryDelay |-> DefaultRetryDelay]
  /\ eventBatch = << >>
  /\ flushTimer = config.enableBatching
  /\ tasks = << >>
  /\ requests = EmptyBag
  /\ nextEvent = 0
  /\ sendEventResult = << >>

\* the retry loop of the call moves on to r2; reaching "calling" invokes fn
RunStep(r2, waited) ==
  run' = [run EXCEPT !.phase = IF r2.pc \in {"returned", "thrown"} THEN "done"
                                ELSE "running",
                     !.r = r2,
                     !.invoked = IF r2.pc = "calling" THEN @ + 1 ELSE @,
                     !.waits = @ \o waited]

\* the call itself, up to the first await
RetryCall ==
  /\ run.phase = "ready"
  /\ RunStep(RetryEnter(run.maxRetries, run.init), << >>)
  /\ UNCHANGED clientVars

\* the promise of the invocation in progress settles
RetrySettle ==
  /\ run.phase = "running"
  /\ run.r.pc = "calling"
  /\ LET o == run.plan[run.invoked]
     IN  RunStep(IF o.ok THEN RetryResolve(run.r, o.value)
                 ELSE RetryReject(run.r, o.error, run.maxRetries, run.initialDelay),
                 << >>)
  /\ UNCHANGED clientVars

\* the setTimeout of the wait fires
RetryTimeout ==
  /\ run.phase = "running"
  /\ run.r.pc = "waiting"
  /\ RunStep(RetryNextAttempt(run.r, run.maxRetries), << run.r.delay >>)
  /\ UNCHANGED clientVars

RetryNext ==
  \/ RetryCall
  \/ RetrySettle
  \/ RetryTimeout

RetrySpec == RetryInit /\ [][RetryNext]_vars

\* ------------------------------------------------------------ observations
Range(seq) == { seq[k] : k \in DOMAIN seq }

Occurrences(e, seq) == Cardinality({ k \in DOMAIN seq : seq[k] = e })

\* the integers from..to in increasing order, as a sequence
Interval(from, to) == [k \in 1..(to - from + 1) |-> from + k - 1]

RECURSIVE CopiesOf(_, _)
CopiesOf(S, bag) ==
  IF S = {} THEN 0
  ELSE LET q == CHOOSE x \in S : TRUE
       IN  CopiesIn(q, bag) + CopiesOf(S \ {q}, bag)

\* number of transport requests that carry event e
Carried(e) ==
  CopiesOf({ q \in BagToSet(requests) : e \in Range(q.body.events) }, requests)

\* number of transport requests issued for submission t
Attempts(t) == CopiesOf({ q \in BagToSet(requests) : q.task = t }, requests)

RECURSIVE InBatches(_, _)
InBatches(e, t) ==
  IF t = 0 THEN 0 ELSE Occurrences(e, tasks[t].events) + InBatches(e, t - 1)

\* no attempt of any submission has failed so far
TransportSucceeds ==
  \A t \in DOMAIN tasks : tasks[t].r.lastError = Undefined

\* ---------------------------------------------------------------------- C1
\* C1 as stated: with batching enabled and a transport that succeeds, every event
\* accepted by sendEvent is carried by at most one request, and by exactly one
\* once the queue has been flushed after the last sendEvent and nothing is in
\* flight.
C1_Original ==
  (config.enableBatching /\ TransportSucceeds) =>
    \A e \in 1..nextEvent :
      /\ Carried(e) <= 1
      /\ (eventBatch = << >> /\ InFlight = {}) => Carried(e) = 1

\* C1 amended: the same for retryAttempts >= 1 -- an accepted event is carried by
\* no request while it is in the live queue and by exactly one from its drain on,
\* whatever interleaving of sendEvent, flush, timer ticks and destroy led there.
C1_NoLossNoDuplicate ==
  (config.enableBatching /\ config.retryAttempts >= 1 /\ TransportSucceeds) =>
    \A e \in 1..nextEvent :
      Carried(e) = IF e \in Range(eventBatch) THEN 0 ELSE 1

C1_Witness ==
  /\ config.enableBatching /\ config.retryAttempts >= 1 /\ TransportSucceeds
  /\ nextEvent = 3 /\ eventBatch = << >> /\ InFlight = {}
  /\ \E t, u \in DOMAIN tasks : tasks[t].origin = "timer" /\ tasks[u].origin = "destroy"
  /\ \A e \in 1..nextEvent : Carried(e) = 1

\* ---------------------------------------------------------------------- C2
\* the state a fresh batching client is in after batchSize sendEvent calls and no
\* other drain: every submission so far was started by sendEvent
AfterBatchSizeSends ==
  /\ config.enableBatching
  /\ nextEvent = config.batchSize
  /\ \A t \in DOMAIN tasks : tasks[t].origin = "sendEvent"

\* exactly one transport call was issued, carrying events 1..batchSize in order,
\* and the queue is empty; later requests are retries of that same submission
OneCallWithTheBatch ==
  /\ eventBatch = << >>
  /\ Len(tasks) = 1
  /\ tasks[1].events = Interval(1, config.batchSize)
  /\ CopiesIn(Request(1, 0, Payload(Interval(1, config.batchSize))), requests) = 1
  /\ \A q \in BagToSet(requests) : q.task = 1 /\ q.body.events = tasks[1].events
  /\ (tasks[1].r.pc = "calling" /\ tasks[1].r.i = 0) => BagCardinality(requests) = 1

\* C2 as stated: after exactly batchSize sendEvent calls on a fresh batching
\* client, one transport call carrying the batchSize events in order has been
\* issued and the queue is empty.
C2_Original == AfterBatchSizeSends => OneCallWithTheBatch

\* C2 amended: the same for retryAttempts >= 1.
C2_FlushAtBatchSize ==
  (AfterBatchSizeSends /\ config.retryAttempts >= 1) => OneCallWithTheBatch

C2_Witness ==
  /\ AfterBatchSizeSends /\ config.retryAttempts >= 1 /\ config.batchSize = 2
  /\ OneCallWithTheBatch
  /\ tasks[1].r.pc = "calling" /\ tasks[1].r.i = 0

\* ---------------------------------------------------------------------- C3
\* every accepted event is in exactly one place: the live queue or one drained batch
EventsPartitioned ==
  \A e \in 1..nextEvent :
    Occurrences(e, eventBatch) + InBatches(e, Len(tasks)) = 1

\* a step that starts a submission from the queue leaves the queue empty and hands
\* over exactly what the queue held (with the event being enqueued, if any); no
\* step changes the batch of a submission that exists
DrainStep ==
  /\ \A t \in DOMAIN tasks :
       /\ t \in DOMAIN tasks'
       /\ tasks'[t].events = tasks[t].events
       /\ tasks'[t].payload = tasks[t].payload
  /\ Len(tasks') > Len(tasks) =>
       /\ eventBatch' = << >>
       /\ tasks'[Len(tasks')].events =
            IF nextEvent' = nextEvent THEN eventBatch
            ELSE Append(eventBatch, nextEvent')

\* C3: a drain is atomic -- in every reachable state each accepted event is either
\* in the live queue or in exactly one drained batch, never in both or in neither;
\* the queue is empty in the step of the drain and an enqueue during the send
\* changes no batch in flight.
C3_DrainAtomic == [](EventsPartitioned) /\ [][DrainStep]_vars

\* an event enqueued while a two-event batch drained earlier still awaits its response
C3_Witness ==
  /\ Len(tasks) >= 1 /\ Len(tasks[1].events) = 2
  /\ tasks[1].r.pc \in {"calling", "waiting"}
  /\ eventBatch = << 3 >>

\* ---------------------------------------------------------------------- C4
\* C4: no transport request carries more than 1000 events, on any path.
C4_RequestsWithinCeiling ==
  \A q \in BagToSet(requests) : Len(q.body.events) <= MaxChunkSize

\* ---------------------------------------------------------------------- C5
\* a destroy() call: it clears an active timer, or starts the final flush
DestroyStep ==
  \/ flushTimer /\ ~flushTimer'
  \/ /\ Len(tasks') > Len(tasks)
     /\ tasks'[Len(tasks')].origin = "destroy"

\* destroy() with N queued events, 1 <= N < batchSize, issues one request carrying
\* the queue in order and empties the queue
DestroyFlushesOnce ==
  (DestroyStep /\ Len(eventBatch) >= 1 /\ Len(eventBatch) < config.batchSize) =>
    /\ eventBatch' = << >>
    /\ Len(tasks') = Len(tasks) + 1
    /\ tasks'[Len(tasks')].events = eventBatch
    /\ tasks'[Len(tasks')].origin = "destroy"
    /\ requests' = Issue(requests, Request(Len(tasks'), 0, Payload(eventBatch)))

\* the events of destroy's final flush travel in requests of that submission only,
\* and are not in the queue again
NoResendAfterDestroy ==
  \A t \in DOMAIN tasks :
    tasks[t].origin = "destroy" =>
      \A e \in Range(tasks[t].events) :
        /\ e \notin Range(eventBatch)
        /\ \A q \in BagToSet(requests) : e \in Range(q.body.events) => q.task = t
        /\ tasks[t].r.lastError = Undefined => Carried(e) <= 1

C6_DestroyNeverRaises ==
  /\ \A t \in DOMAIN tasks :
       tasks[t].origin = "destroy" =>
         /\ tasks[t].outcome \in {"pending", "resolved", "logged"}
         /\ tasks[t].r.pc = "thrown" => tasks[t].outcome = "logged"
  /\ flush(<< >>, tasks, requests, "destroy") =
       [eventBatch |-> << >>, tasks |-> tasks, requests |-> requests]

\* the final flush failed twice and was logged
C6_Witness ==
  \E t \in DOMAIN tasks :
    /\ tasks[t].origin = "destroy" /\ tasks[t].r.pc = "thrown"
    /\ tasks[t].r.i = 2 /\ Attempts(t) = 2
    /\ tasks[t].outcome = "logged"

\* ---------------------------------------------------------------------- C7
\* C7: a submission whose attempts all fail is attempted exactly retryAttempts
\* times, and its failure is then raised to the caller of the operation that
\* started it: flush(), sendBatch(), or the sendEvent call whose enqueue reached
\* batchSize, the earlier sendEvent calls of the batch having resolved.
C7_FailureRaisedToTrigger ==
  \A t \in DOMAIN tasks :
    LET task == tasks[t] IN
    /\ task.r.pc = "thrown" =>
         /\ Attempts(t) = config.retryAttempts
         /\ \A i \in 0..(config.retryAttempts - 1) :
              CopiesIn(Request(t, i, task.payload), requests) = 1
         /\ task.origin \in {"sendEvent", "flush", "sendBatch"} =>
              task.outcome = "raised"
         /\ task.origin = "sendEvent" =>
              /\ task.caller = task.events[Len(task.events)]
              /\ sendEventResult[task.caller] = "rejected"
              /\ \A k \in 1..(Len(task.events) - 1) :
                   sendEventResult[task.events[k]] = "resolved"
    /\ task.outcome = "raised" => task.r.pc = "thrown"
    /\ (task.origin = "sendEvent" /\ task.r.pc \in {"calling", "waiting"}) =>
         sendEventResult[task.caller] = "pending"

\* a size-triggered flush of two events failed twice; flush() and sendBatch()
\* failed as well
C7_Witness ==
  /\ config.retryAttempts = 2
  /\ \E t \in DOMAIN tasks :
       /\ tasks[t].origin = "sendEvent" /\ tasks[t].r.pc = "thrown"
       /\ Len(tasks[t].events) = 2
       /\ sendEventResult[tasks[t].events[1]] = "resolved"
       /\ sendEventResult[tasks[t].events[2]] = "rejected"
  /\ \E t \in DOMAIN tasks :
       tasks[t].origin = "sendBatch" /\ tasks[t].outcome = "raised"

\* ---------------------------------------------------------------------- C8
\* the first invocation the script lets succeed, 0 when there is none
FirstSuccess(plan) ==
  IF \E k \in DOMAIN plan : plan[k].ok
  THEN CHOOSE k \in DOMAIN plan : plan[k].ok /\ \A j \in 1..(k - 1) : ~plan[j].ok
  ELSE 0

\* C8: when the operation first succeeds on attempt k, 1 <= k <= maxRetries,
\* retryWithBackoff invokes it exactly k times and returns that attempt's result,
\* with no further attempt and no wait after the success.
C8_ReturnsFirstSuccess ==
  LET k == FirstSuccess(run.plan) IN
  (run.phase # "none" /\ 1 <= k /\ k <= run.maxRetries) =>
    /\ run.invoked <= k
    /\ Len(run.waits) <= k - 1
    /\ run.r.pc # "thrown"
    /\ run.phase = "done" =>
         /\ run.invoked = k
         /\ Len(run.waits) = k - 1
         /\ run.r.pc = "returned"
         /\ run.r.result = run.plan[k].value

\* fails twice, then succeeds, maxRetries = 3: three invocations, success returned
C8_Witness ==
  /\ run.phase = "done" /\ run.maxRetries = 3
  /\ FirstSuccess(run.plan) = 3
  /\ run.invoked = 3 /\ run.r.pc = "returned" /\ run.r.result = "success"

\* ---------------------------------------------------------------------- C9
\* C9: when every attempt fails and maxRetries = n >= 1, retryWithBackoff invokes
\* the operation exactly n times and throws the failure of the n-th attempt.
C9_ThrowsLastFailure ==
  LET n == run.maxRetries IN
  (run.phase # "none" /\ n >= 1 /\ \A k \in 1..n : ~run.plan[k].ok) =>
    /\ run.invoked <= n
    /\ run.r.pc # "returned"
    /\ run.phase = "done" =>
         /\ run.invoked = n
         /\ run.r.pc = "thrown"
         /\ run.r.lastError = run.plan[n].error

\* n = 2, two different failures: the second one is thrown
C9_Witness ==
  /\ run.phase = "done" /\ run.maxRetries = 2
  /\ ~run.plan[1].ok /\ ~run.plan[2].ok
  /\ run.plan[1].error # run.plan[2].error
  /\ run.invoked = 2 /\ run.r.pc = "thrown"
  /\ run.r.lastError = run.plan[2].error

\* --------------------------------------------------------------------- C10
\* C10: with maxRetries = 0 retryWithBackoff never invokes the operation and
\* throws an Error whose message is "All retry attempts failed".
C10_ZeroRetries ==
  (run.phase # "none" /\ run.maxRetries = 0) =>
    /\ run.invoked = 0
    /\ run.phase = "done" =>
         /\ run.r.pc = "thrown"
         /\ run.r.lastError = Error(<< "All retry attempts failed" >>)

\* --------------------------------------------------------------------- C11
\* 1000, 2000, 4000, ...: the delays of initialDelay = 1000, written out
Doubling1000 == << 1000, 2000, 4000, 8000, 16000 >>

\* C11: the wait between failed attempt i and attempt i + 1 (i from 0) is exactly
\* initialDelay * 2^i -- 1000, 2000, 4000, ... for initialDelay 1000 -- and no
\* wait follows the failure of the last allowed attempt: the failure is thrown in
\* the step in which that attempt fails.
C11_BackoffDelays ==
  run.phase # "none" =>
    /\ \A k \in DOMAIN run.waits : run.waits[k] = run.initialDelay * Pow2(k - 1)
    /\ run.initialDelay = 1000 =>
         run.waits = SubSeq(Doubling1000, 1, Len(run.waits))
    /\ run.r.pc = "waiting" =>
         /\ run.invoked < run.maxRetries
         /\ Len(run.waits) = run.invoked - 1
         /\ run.r.delay = run.initialDelay * Pow2(run.invoked - 1)
    /\ run.r.pc = "calling" => Len(run.waits) = run.invoked - 1
    /\ (run.r.pc = "thrown" /\ run.maxRetries >= 1) =>
         /\ run.invoked = run.maxRetries
         /\ Len(run.waits) = run.maxRetries - 1
    /\ (run.r.pc = "thrown" /\ run.maxRetries = 0) => run.waits = << >>

\* four attempts fail with initialDelay 1000: waits of 1000, 2000 and 4000, and
\* the fourth failure is thrown with no further wait
C11_Witness ==
  /\ run.phase = "done" /\ run.r.pc = "thrown"
  /\ run.maxRetries = 4 /\ run.initialDelay = 1000 /\ run.invoked = 4
  /\ run.waits = << 1000, 2000, 4000 >>

\* --------------------------------------------------------------------- C12
\* ceil(n / d)
CeilDiv(n, d) == (n + d - 1) \div d

Min(a, b) == IF a < b THEN a ELSE b

\* C12: sendBatch with n > 1000 events submits the chunks one after the other --
\* the k-th submission carries events 1000(k-1)+1 .. min(1000k, n) of the input in
\* order (lengths 1000, ..., 1000, remainder; the concatenation is the input) and
\* starts only when the one before it has returned -- and when every transport
\* call has succeeded and the call has resolved, the transport was invoked exactly
\* ceil(n/1000) times, once per chunk, with that chunk as content.
C12_ChunkedSendBatch ==
  LET n == nextEvent IN
  (n > MaxChunkSize /\ \A t \in DOMAIN tasks : tasks[t].origin = "sendBatch") =>
    /\ Len(tasks) <= CeilDiv(n, MaxChunkSize)
    /\ \A t \in DOMAIN tasks :
         /\ tasks[t].events =
              Interval(MaxChunkSize * (t - 1) + 1, Min(MaxChunkSize * t, n))
         /\ t < Len(tasks) => tasks[t].r.pc = "returned"
         /\ tasks[t].outcome = "resolved" => t = CeilDiv(n, MaxChunkSize)
    /\ \A q \in BagToSet(requests) :
         q.task \in DOMAIN tasks /\ q.body.events = tasks[q.task].events
    /\ (Len(tasks) >= 1 /\ tasks[Len(tasks)].outcome = "resolved"
          /\ TransportSucceeds) =>
         /\ BagCardinality(requests) = CeilDiv(n, MaxChunkSize)
         /\ \A t \in 1..CeilDiv(n, MaxChunkSize) :
              CopiesIn(Request(t, 0, Payload(tasks[t].events)), requests) = 1

\* 1500 events, both chunks succeeded at once: two requests, of 1000 and 500 events
C12_Witness ==
  /\ nextEvent = 1500 /\ TransportSucceeds
  /\ Len(tasks) = 2 /\ tasks[2].outcome = "resolved"
  /\ Len(tasks[1].events) = 1000 /\ Len(tasks[2].events) = 500
  /\ tasks[1].events \o tasks[2].events = Interval(1, 1500)
  /\ BagCardinality(requests) = 2

\* --------------------------------------------------------------------- C13
\* C13: in every reachable state with an empty queue, flush() starts no
\* submission and issues no request, changes neither the queue nor the timer nor
\* anything else, and its promise resolves.
C13_FlushEmptyNoOp ==
  eventBatch = << >> =>
    /\ LET s == flush(eventBatch, tasks, requests, "flush")
       IN  /\ s.eventBatch = << >>
           /\ s.tasks = tasks
           /\ s.requests = requests
           /\ CallResult(s.tasks) = "resolved"
    /\ ~ENABLED (Flush /\ vars' # vars)

\* an empty queue while an earlier drain is still in flight: flush() called now
\* changes nothing
C13_Witness ==
  /\ eventBatch = << >> /\ nextEvent >= 1 /\ InFlight # {}
  /\ config.retryAttempts >= 1
  /\ ~ENABLED (Flush /\ vars' # vars)
  /\ flush(eventBatch, tasks, requests, "flush").requests = requests

\* --------------------------------------------------------------------- C14
\* C14: in every reachable state sendBatch([]) starts no submission and issues no
\* request, its promise resolves, and the call changes neither the queue nor
\* anything else.
C14_SendBatchEmptyNoOp ==
  /\ LET s == sendBatch(tasks, requests, << >>)
     IN  /\ s.tasks = tasks
         /\ s.requests = requests
         /\ CallResult(s.tasks) = "resolved"
  /\ ~ENABLED (SendBatchOf(0) /\ vars' # vars)

\* events are queued and a submission is in flight: sendBatch([]) called now
\* leaves the queue as it is
C14_Witness ==
  /\ eventBatch # << >> /\ InFlight # {}
  /\ sendBatch(tasks, requests, << >>).requests = requests
  /\ ~ENABLED (SendBatchOf(0) /\ eventBatch' # eventBatch)

\* --------------------------------------------------------------------- C15
\* C15: the body of every transport request, retries included, is the single
\* event object when the batch submitted has exactly 1 event, and the array of
\* the batch's events in order when it has 2 or more -- whichever operation
\* started the submission: sendEvent without batching, the sendEvent that fills
\* the queue, sendBatch, flush(), a timer tick or destroy().
C15_PayloadShape ==
  \A q \in BagToSet(requests) :
    /\ q.task \in DOMAIN tasks
    /\ LET batch == tasks[q.task].events
       IN  /\ Len(batch) = 1 =>
                q.body = [shape |-> "object", events |-> << batch[1] >>]
           /\ Len(batch) >= 2 => q.body = [shape |-> "array", events |-> batch]

\* destroy() flushed one queued event as an object, sendBatch sent two as an array
C15_Witness ==
  \E q1, q2 \in BagToSet(requests) :
    /\ tasks[q1.task].origin = "destroy"
    /\ Len(tasks[q1.task].events) = 1 /\ q1.body.shape = "object"
    /\ tasks[q2.task].origin = "sendBatch"
    /\ Len(tasks[q2.task].events) = 2 /\ q2.body.shape = "array"
    /\ q2.attempt = 1

\* --------------------------------------------------------------------- C16
\* the latest attempt of submission t was answered by an HTTP response whose
\* status is not 2xx
AnsweredNon2xx(t) ==
  /\ tasks[t].response.kind = "http"
  /\ tasks[t].response.status \notin 200..299

\* C16: an attempt answered by a non-2xx response with status s and text b fails
\* with an Error whose message is "HTTP s: b" ("HTTP 400: Bad Request" for 400
\* and "Bad Request"), and the failure is retried like any other: the submission
\* waits and posts again while attempts remain, and is thrown only when
\* retryAttempts requests have been made.
C16_HttpFailureMessage ==
  \A t \in DOMAIN tasks :
    AnsweredNon2xx(t) =>
      LET task == tasks[t]
          s == task.response.status
          b == task.response.text
      IN  /\ task.r.lastError = Error(<< "HTTP ", ToString(s), ": ", b >>)
          /\ (s = 400 /\ b = "Bad Request") =>
               task.r.lastError.message = << "HTTP ", "400", ": ", "Bad Request" >>
          /\ task.r.pc \in {"waiting", "calling", "thrown"}
          /\ task.r.pc = "waiting" =>
               Attempts(t) = task.r.i + 1 /\ Attempts(t) < config.retryAttempts
          /\ task.r.pc = "calling" =>
               Attempts(t) = task.r.i + 1 /\ task.r.i >= 1
          /\ task.r.pc = "thrown" =>
               Attempts(t) = config.retryAttempts /\ task.outcome = "raised"

\* a 400 "Bad Request" answered the first request and the second one is under way
C16_Witness ==
  \E t \in DOMAIN tasks :
    /\ tasks[t].response = BadRequest
    /\ tasks[t].r.pc = "calling" /\ tasks[t].r.i = 1
    /\ "400" \in Range(tasks[t].r.lastError.message)
    /\ "Bad Request" \in Range(tasks[t].r.lastError.message)

\* --------------------------------------------------------------------- C17
\* the latest attempt of submission t was answered by a 2xx response whose parsed
\* body has the success flag v
Answered2xx(t, v) ==
  /\ tasks[t].response.kind = "http"
  /\ tasks[t].response.status \in 200..299
  /\ tasks[t].response.success = v

\* C17: an attempt answered by a 2xx response with success = false fails with an
\* Error whose message is the body's message ("Invalid event"), or "Failed to send
\* events" when the body has none; a submission counts as delivered -- its retry
\* loop returns, its caller's promise resolves -- only on a 2xx response with
\* success = true, and such a response always delivers.
C17_SuccessFlag ==
  \A t \in DOMAIN tasks :
    LET task == tasks[t] IN
    /\ Answered2xx(t, FALSE) =>
         /\ task.r.pc \in {"waiting", "calling", "thrown"}
         /\ task.r.lastError.kind = "Error"
         /\ task.response.message = "Invalid event" =>
              task.r.lastError.message = << "Invalid event" >>
         /\ task.response.message # "" =>
              task.r.lastError.message = << task.response.message >>
         /\ task.response.message = "" =>
              task.r.lastError.message = << "Failed to send events" >>
    /\ task.r.pc = "returned" <=> Answered2xx(t, TRUE)
    /\ task.outcome = "resolved" => Answered2xx(t, TRUE)
    /\ sendEventResult[task.caller] = "resolved" <=> task.r.pc = "returned"

\* {success: false, message: "Invalid event"} on a 200 was thrown to the caller,
\* retryAttempts being 1
C17_Witness ==
  \E t \in DOMAIN tasks :
    /\ config.retryAttempts = 1
    /\ tasks[t].response = HttpResponse(200, "Success", FALSE, "Invalid event")
    /\ tasks[t].r.pc = "thrown" /\ tasks[t].outcome = "raised"
    /\ tasks[t].r.lastError = Error(<< "Invalid event" >>)
    /\ sendEventResult[tasks[t].caller] = "rejected"

\* --------------------------------------------------------------------- C18
\* sendEvent(e) started the e-th submission, of exactly [e], and the promise of the
\* call follows that submission: pending while it runs, resolved when it
\* returned, rejected when it threw
SubmittedDirectly(e) ==
  /\ tasks[e].origin = "sendEvent" /\ tasks[e].caller = e
  /\ tasks[e].events = << e >>
  /\ sendEventResult[e] =
       CASE tasks[e].r.pc = "returned" -> "resolved"
         [] tasks[e].r.pc = "thrown" -> "rejected"
         [] OTHER -> "pending"

\* the first request of submission e exists, and every request of it carries e alone
RequestedAtOnce(e) ==
  /\ CopiesIn(Request(e, 0, Payload(<< e >>)), requests) = 1
  /\ \A q \in BagToSet(requests) :
       q.task = e => q.body = [shape |-> "object", events |-> << e >>]

\* the queue is empty, there is no timer, and every submission is a sendEvent's
NothingQueued ==
  /\ eventBatch = << >>
  /\ ~flushTimer
  /\ Len(tasks) = nextEvent

\* C18 as stated: with batching disabled every sendEvent(event) at once submits
\* exactly [event] through the transport and resolves or raises with the outcome
\* of that submission; the queue stays empty and no flush timer exists.
C18_Original ==
  ~config.enableBatching =>
    /\ NothingQueued
    /\ \A e \in 1..nextEvent : SubmittedDirectly(e) /\ RequestedAtOnce(e)

\* C18 amended: the same, the transport request being issued when retryAttempts
\* is at least 1.
C18_DirectSend ==
  ~config.enableBatching =>
    /\ NothingQueued
    /\ \A e \in 1..nextEvent :
         /\ SubmittedDirectly(e)
         /\ config.retryAttempts >= 1 => RequestedAtOnce(e)

\* three sendEvent calls not awaited: the first resolved on its second attempt,
\* the second raised after two failures, the third is in flight
C18_Witness ==
  /\ ~config.enableBatching /\ config.retryAttempts = 2 /\ nextEvent = 3
  /\ sendEventResult = << "resolved", "rejected", "pending" >>
  /\ Attempts(1) = 2 /\ Attempts(2) = 2 /\ Attempts(3) = 1
  /\ NothingQueued

\* --------------------------------------------------------------------- C19
\* what sendEvent would do with one more event in the current state
NextSendEvent == queueOrSendEvent(nextEvent + 1)

\* the submission started by the call sendEvent(e), 0 when that call only enqueued
TriggeredBy(e) ==
  IF \E t \in DOMAIN tasks : tasks[t].origin = "sendEvent" /\ tasks[t].caller = e
  THEN CHOOSE t \in DOMAIN tasks :
         tasks[t].origin = "sendEvent" /\ tasks[t].caller = e
  ELSE 0

\* C19: with batching enabled, a sendEvent whose enqueue leaves the queue shorter
\* than batchSize starts no submission, issues no request and its promise is
\* resolved when the call returns; a sendEvent whose enqueue reaches batchSize
\* starts the flush and its promise stays pending while that submission posts,
\* waits or retries: it is resolved exactly when the submission has returned.
C19_SendEventResolution ==
  config.enableBatching =>
    /\ Len(eventBatch) + 1 < config.batchSize =>
         /\ NextSendEvent.tasks = tasks
         /\ NextSendEvent.requests = requests
         /\ NextSendEvent.eventBatch = Append(eventBatch, nextEvent + 1)
         /\ CallResult(NextSendEvent.tasks) = "resolved"
    /\ Len(eventBatch) + 1 >= config.batchSize =>
         /\ Len(NextSendEvent.tasks) = Len(tasks) + 1
         /\ NextSendEvent.eventBatch = << >>
         /\ config.retryAttempts >= 1 => CallResult(NextSendEvent.tasks) = "pending"
    /\ \A e \in 1..nextEvent :
         LET t == TriggeredBy(e) IN
         /\ t = 0 => sendEventResult[e] = "resolved"
         /\ t # 0 =>
              /\ e = tasks[t].events[Len(tasks[t].events)]
              /\ Len(tasks[t].events) = config.batchSize
              /\ tasks[t].r.pc \in {"calling", "waiting"} =>
                   sendEventResult[e] = "pending"
              /\ sendEventResult[e] = "resolved" <=> tasks[t].r.pc = "returned"

\* batchSize 2: the first sendEvent resolved at once, the second resolved when its
\* flush had returned on the second attempt; a third event is queued, resolved
C19_Witness ==
  /\ config.enableBatching /\ config.batchSize = 2 /\ nextEvent = 3
  /\ TriggeredBy(1) = 0 /\ TriggeredBy(2) # 0 /\ TriggeredBy(3) = 0
  /\ Attempts(TriggeredBy(2)) = 2 /\ tasks[TriggeredBy(2)].r.pc = "returned"
  /\ sendEventResult = << "resolved", "resolved", "resolved" >>
  /\ eventBatch = << 3 >>

\* --------------------------------------------------------------------- C20
\* destroy() has been called with events in the queue
DestroyFlushed == \E t \in DOMAIN tasks : tasks[t].origin = "destroy"

\* without a timer nothing restarts it and no step starts a timer's submission; a
\* destroy() that finds events queued hands over the queue, as flush() does
StaysCancelled ==
  ~flushTimer =>
    /\ ~flushTimer'
    /\ \A t \in DOMAIN tasks' :
         t \notin DOMAIN tasks =>
           /\ tasks'[t].origin # "timer"
           /\ tasks'[t].origin = "destroy" =>
                tasks'[t].events = eventBatch /\ eventBatch' = << >>

\* C20: once destroy() has been called the timer is cancelled for good -- no tick
\* fires and no timer-triggered flush starts in any later state; on a client
\* without a timer (batching disabled, or destroy() called before) destroy()
\* only attempts a flush, which changes nothing when the queue is empty.
C20_TimerCancelled ==
  /\ [](DestroyFlushed => ~flushTimer)
  /\ [](~config.enableBatching => ~flushTimer)
  /\ [](~flushTimer => ~ENABLED TimerTick)
  /\ []((~flushTimer /\ eventBatch = << >>) => ~ENABLED (Destroy /\ vars' # vars))
  /\ [][StaysCancelled]_vars

\* destroy() was called twice, each time with one event queued; a third event has
\* been queued since and no timer comes to flush it
C20_Witness ==
  /\ config.enableBatching /\ config.batchSize = 2 /\ ~flushTimer
  /\ Len(tasks) = 2
  /\ tasks[1].origin = "destroy" /\ tasks[1].events = << 1 >>
  /\ tasks[2].origin = "destroy" /\ tasks[2].events = << 2 >>
  /\ eventBatch = << 3 >>
  /\ ~ENABLED TimerTick

\* --------------------------------------------------------------------- C21
\* the key and the URL the constructor ends up with: config first, then the
\* environment, then (for the URL) the default
ResolvedKey == OrElse(run.cfg.secretKey, run.env.secretKey)

ResolvedUrl == OrElse(OrElse(run.cfg.apiUrl, run.env.apiUrl), DefaultApiUrl)

BadInput ==
  \/ ResolvedKey = << >>
  \/ Len(ResolvedKey) < 3
  \/ << ResolvedKey[1], ResolvedKey[2], ResolvedKey[3] >> # << "s", "k", "_" >>
  \/ ~UrlParses(ResolvedUrl)

\* C21: new Yorin(config) throws in the constructor when the secret key is
\* missing, when it does not start with "sk_", or when the API URL does not parse;
\* then there is no client: no timer is set, no operation can run and no request
\* is ever issued.  With good input the client exists.
C21_ConstructionFails ==
  (run.phase \in {"constructed", "failed"}) =>
    /\ BadInput <=> run.phase = "failed"
    /\ run.phase = "failed" =>
         /\ run.error.kind = "Error"
         /\ ~flushTimer
         /\ tasks = << >> /\ requests = EmptyBag /\ eventBatch = << >>
         /\ ~ENABLED (ConstructNext /\ vars' # vars)

\* a key with sk_ in the wrong place was refused
C21_Witness ==
  /\ run.phase = "failed"
  /\ ResolvedKey = << "x", "s", "k", "_" >>
  /\ run.error = Error(<< "Invalid secret key format" >>)
  /\ ~flushTimer /\ requests = EmptyBag

\* --------------------------------------------------------------------- C22
\* the submissions started by sendEvent calls
SizeFlushes == { t \in DOMAIN tasks : tasks[t].origin = "sendEvent" }

\* C22: sendEvent calls that overlap cannot both flush for one threshold
\* crossing -- the queue never holds batchSize events between steps, every flush
\* started by a sendEvent carries exactly batchSize events ending with that
\* call's event, no event is in two submissions, and the call after the one that
\* drained found the queue as the drain left it.
C22_OneDrainPerCrossing ==
  config.enableBatching =>
    /\ Len(eventBatch) < config.batchSize
    /\ \A t \in SizeFlushes :
         /\ Len(tasks[t].events) = config.batchSize
         /\ tasks[t].caller = tasks[t].events[config.batchSize]
         /\ \A u \in SizeFlushes : tasks[u].caller = tasks[t].caller => u = t
         /\ \A e \in (tasks[t].caller + 1)..nextEvent :
              e \notin Range(tasks[t].events)
    /\ \A t, u \in DOMAIN tasks :
         t # u => Range(tasks[t].events) \cap Range(tasks[u].events) = {}
    /\ \A e \in Range(eventBatch), t \in DOMAIN tasks : e \notin Range(tasks[t].events)

\* batchSize 2: the second call drained events 1 and 2 and is still awaiting the
\* response; the third call, started meanwhile, found the queue empty
C22_Witness ==
  /\ config.enableBatching /\ config.batchSize = 2 /\ nextEvent = 3
  /\ Len(tasks) = 1 /\ tasks[1].origin = "sendEvent"
  /\ tasks[1].events = << 1, 2 >> /\ tasks[1].r.pc = "calling"
  /\ sendEventResult = << "resolved", "pending", "resolved" >>
  /\ eventBatch = << 3 >>

\* --------------------------------------------------------------------- C23
\* a drain of the current queue, started by origin, submits the whole queue
DrainsWholeQueue(origin) ==
  LET s == flushBatch(eventBatch, tasks, requests, origin, 0)
  IN  /\ Len(s.tasks) = Len(tasks) + 1
      /\ s.tasks[Len(s.tasks)].events = eventBatch
      /\ s.eventBatch = << >>
      /\ \A t \in DOMAIN tasks : s.tasks[t] = tasks[t]

\* C23: while a request or a backoff wait of an earlier submission is in flight,
\* sendEvent(e) leaves every existing submission and its requests as they are
\* and puts e at the tail of the live queue (or, the queue reaching batchSize,
\* into the new submission that drains it); the next flush, tick or destroy
\* submits the whole queue; an accepted event is in the queue exactly when it
\* is in no submission.
C23_QueuedForNextFlush ==
  (config.enableBatching /\ InFlight # {}) =>
    /\ LET e == nextEvent + 1
           s == queueOrSendEvent(e)
       IN  /\ \A t \in DOMAIN tasks : s.tasks[t] = tasks[t]
           /\ requests \sqsubseteq s.requests
           /\ \A q \in BagToSet(s.requests) : q.task \in DOMAIN tasks => q \in BagToSet(requests)
           /\ IF Len(eventBatch) + 1 < config.batchSize
              THEN /\ s.eventBatch = Append(eventBatch, e)
                   /\ s.tasks = tasks /\ s.requests = requests
              ELSE /\ s.eventBatch = << >>
                   /\ Len(s.tasks) = Len(tasks) + 1
                   /\ s.tasks[Len(s.tasks)].events = Append(eventBatch, e)
    /\ eventBatch # << >> =>
         \A origin \in {"flush", "timer", "destroy"} : DrainsWholeQueue(origin)
    /\ \A e \in 1..nextEvent :
         e \in Range(eventBatch) <=> ~\E t \in DOMAIN tasks : e \in Range(tasks[t].events)

\* events 1 and 2 are still in flight; event 3, sent meanwhile, was queued and
\* then submitted on its own by flush()
C23_Witness ==
  /\ config.enableBatching /\ Len(tasks) = 2
  /\ tasks[1].events = << 1, 2 >> /\ tasks[1].r.pc \in {"calling", "waiting"}
  /\ tasks[2].origin = "flush" /\ tasks[2].events = << 3 >>
  /\ eventBatch = << >>

DrainsLikeFlush ==
  LET m == flush(eventBatch, tasks, requests, "flush")
      t == Len(tasks) + 1
  IN  /\ eventBatch' = << >>
      /\ Len(tasks') = t
      /\ tasks'[t].events = eventBatch
      /\ tasks'[t].origin = "timer"
      /\ tasks'[t].payload = m.tasks[t].payload
      /\ tasks'[t].r = m.tasks[t].r
      /\ requests' = m.requests
      /\ \A u \in DOMAIN tasks : tasks'[u] = tasks[u]

\* C25: while the timer is set, a tick on a non-empty queue can fire whether or
\* not an earlier submission is in flight, and every such tick drains the whole
\* queue and submits it exactly as flush() would; the submissions that overlap
\* carry disjoint events; a tick on an empty queue changes nothing and issues
\* no request.
C25_TimerTickDrains ==
  flushTimer =>
    /\ (eventBatch # << >> /\ Cardinality(InFlight) < MaxInFlight) =>
         ENABLED (TimerTick /\ DrainsLikeFlush)
    /\ eventBatch # << >> => ~ENABLED (TimerTick /\ ~DrainsLikeFlush)
    /\ eventBatch = << >> => ~ENABLED (TimerTick /\ vars' # vars)
    /\ \A t, u \in InFlight :
         t # u => Range(tasks[t].events) \cap Range(tasks[u].events) = {}

\* a tick submitted event 3 while the size-triggered flush of events 1 and 2 was
\* still awaiting its response
C25_Witness ==
  /\ flushTimer /\ Len(tasks) = 2
  /\ tasks[1].origin = "sendEvent" /\ tasks[1].events = << 1, 2 >>
  /\ tasks[2].origin = "timer" /\ tasks[2].events = << 3 >>
  /\ InFlight = {1, 2}
  /\ eventBatch = << >>

\* --------------------------------------------------------------------- C26
\* a timer tick followed by flush(), and flush() followed by a timer tick, from
\* the current state with no enqueue between the two
TickThenFlush ==
  LET a == timerCallback(eventBatch, tasks, requests)
  IN  [first |-> a, second |-> flush(a.eventBatch, a.tasks, a.requests, "flush")]

FlushThenTick ==
  LET a == flush(eventBatch, tasks, requests, "flush")
  IN  [first |-> a, second |-> timerCallback(a.eventBatch, a.tasks, a.requests)]

\* the first of the two drained the whole queue into one submission (and, with
\* withCall, issued the request that carries it); the second changed nothing
OneDrained(o, withCall) ==
  LET t == Len(tasks) + 1 IN
  /\ o.first.eventBatch = << >>
  /\ Len(o.first.tasks) = t
  /\ o.first.tasks[t].events = eventBatch
  /\ withCall =>
       o.first.requests = Issue(requests, Request(t, 0, Payload(eventBatch)))
  /\ o.second = o.first

\* C26 as stated: when a timer tick and a manual flush() meet a non-empty queue
\* with no enqueue between them, whichever runs first drains the queue and issues
\* one transport call carrying all its events, and the other finds the queue
\* empty and issues none.
C26_Original ==
  (flushTimer /\ eventBatch # << >>) =>
    /\ OneDrained(TickThenFlush, TRUE)
    /\ OneDrained(FlushThenTick, TRUE)

\* C26 amended: the same, the transport call being issued when retryAttempts is
\* at least 1.
C26_OneDrains ==
  (flushTimer /\ eventBatch # << >>) =>
    /\ OneDrained(TickThenFlush, config.retryAttempts >= 1)
    /\ OneDrained(FlushThenTick, config.retryAttempts >= 1)
    /\ TickThenFlush.first.tasks[Len(tasks) + 1].origin = "timer"
    /\ FlushThenTick.first.tasks[Len(tasks) + 1].origin = "flush"

\* event 3 is queued behind a submission in flight; of a tick and a flush() now,
\* the one that runs first posts event 3 and the other does nothing
C26_Witness ==
  /\ flushTimer /\ config.retryAttempts >= 1
  /\ eventBatch = << 3 >> /\ InFlight = {1}
  /\ TickThenFlush.first.requests = Issue(requests, Request(2, 0, Payload(<< 3 >>)))
  /\ TickThenFlush.second.requests = TickThenFlush.first.requests
  /\ FlushThenTick.second.tasks = FlushThenTick.first.tasks

\* --------------------------------------------------------------------- C27
\* chunk k of the sendBatch call under way has used up its retries
ChunkFailed(k) ==
  /\ nextEvent > MaxChunkSize
  /\ tasks[k].origin = "sendBatch"
  /\ tasks[k].r.pc = "thrown"

\* chunk j was delivered: its submission returned on a 2xx answer with
\* success, and the request that carried it is on record
ChunkDelivered(j) ==
  /\ tasks[j].r.pc = "returned"
  /\ fetchAttempt(tasks[j].response).ok
  /\ tasks[j].events =
       Interval(MaxChunkSize * (j - 1) + 1, MaxChunkSize * j)
  /\ \E q \in BagToSet(requests) :
       q.task = j /\ q.body.events = tasks[j].events

\* C27: when the submission of chunk k of a multi-chunk sendBatch fails after its
\* retries, the call is rejected with that chunk's last failure, chunks 1..k-1
\* stay delivered, and chunks k+1.. are never submitted: no later submission
\* and no request for one exists, in this state or any later one.
C27_ChunkFailureStops ==
  \A k \in DOMAIN tasks :
    ChunkFailed(k) =>
      /\ tasks[k].outcome = "raised"
      /\ config.retryAttempts >= 1 =>
           /\ ~fetchAttempt(tasks[k].response).ok
           /\ tasks[k].r.lastError = fetchAttempt(tasks[k].response).error
      /\ \A j \in 1..(k - 1) : ChunkDelivered(j)
      /\ Len(tasks) = k
      /\ Len(tasks[k].rest) = CeilDiv(nextEvent, MaxChunkSize) - k
      /\ \A q \in BagToSet(requests) : q.task <= k

\* 2002 events, two attempts a chunk: chunk 1 was delivered, chunk 2 failed
\* twice and the call was rejected, chunk 3 (two events) was never submitted
C27_Witness ==
  /\ nextEvent = 2 * MaxChunkSize + 2 /\ config.retryAttempts = 2
  /\ Len(tasks) = 2 /\ ChunkFailed(2) /\ ChunkDelivered(1)
  /\ tasks[2].outcome = "raised"
  /\ Len(tasks[2].rest) = 1
  /\ CopiesOf({ q \in BagToSet(requests) : q.task = 2 }, requests) = 2

\* --------------------------------------------------------------------- C28
\* the requests issued by the step: those with more copies after it than before
IssuedNow ==
  { q \in BagToSet(requests') : CopiesIn(q, requests') > CopiesIn(q, requests) }

\* C28: within one sendBatch call of more than 1000 events, every step that
\* issues a request issues it for the latest chunk submitted, carrying that
\* chunk's events, and at that moment every earlier chunk's submission has
\* returned on a successful answer (no attempt or backoff wait of it is still
\* pending) and no request of a later chunk exists: requests are issued in input
\* order.
C28_ChunksInOrder ==
  [][ nextEvent' > MaxChunkSize =>
        \A q \in IssuedNow :
          /\ q.task = Len(tasks')
          /\ q.body.events =
               Interval(MaxChunkSize * (q.task - 1) + 1,
                        Min(MaxChunkSize * q.task, nextEvent'))
          /\ \A j \in 1..(q.task - 1) :
               /\ tasks'[j].r.pc = "returned"
               /\ fetchAttempt(tasks'[j].response).ok
          /\ \A p \in BagToSet(requests) : p.task <= q.task
    ]_vars

\* 1500 events: chunk 1 failed once, waited, and succeeded on its second attempt;
\* only then was the first request of chunk 2 issued
C28_Witness ==
  /\ nextEvent = 1500 /\ Len(tasks) = 2
  /\ tasks[1].r.pc = "returned" /\ tasks[1].r.i = 1
  /\ CopiesOf({ q \in BagToSet(requests) : q.task = 1 }, requests) = 2
  /\ tasks[2].r.pc = "calling" /\ tasks[2].r.i = 0
  /\ CopiesIn(Request(2, 0, Payload(Interval(MaxChunkSize + 1, 1500))), requests) = 1

\* --------------------------------------------------------------------- C29
\* Events are numbered in the order of their sendEvent calls, and submissions in
\* the order of the drains that started them.
Increasing(seq) == \A i, j \in DOMAIN seq : i < j => seq[i] < seq[j]

Before(first, second) == \A a \in Range(first), b \in Range(second) : a < b

\* C29: on a batching client every drained batch holds its events in the order
\* they were enqueued, every request carries its batch in that order, an event
\* of an earlier drain was enqueued before every event of a later drain, and the
\* events still queued are in enqueue order and younger than all drained ones.
C29_Fifo ==
  config.enableBatching =>
    /\ Increasing(eventBatch)
    /\ \A t \in DOMAIN tasks :
         /\ Increasing(tasks[t].events)
         /\ Before(tasks[t].events, eventBatch)
         /\ \A u \in DOMAIN tasks :
              t < u => Before(tasks[t].events, tasks[u].events)
    /\ \A q \in BagToSet(requests) : q.body = Payload(tasks[q.task].events)

\* events 1 and 2 left together in the first drain, in that order, and event 3 in
\* a later one
C29_Witness ==
  /\ config.enableBatching
  /\ Len(tasks) = 2
  /\ tasks[1].events = << 1, 2 >> /\ tasks[2].events = << 3 >>
  /\ tasks[2].origin \in {"timer", "flush"}
  /\ \E q \in BagToSet(requests) : q.task = 1 /\ q.body = Payload(<< 1, 2 >>)

\* --------------------------------------------------------------------- C30
\* the concatenation of the chunks
RECURSIVE Concat(_)
Concat(chunks) ==
  IF chunks = << >> THEN << >> ELSE Head(chunks) \o Concat(Tail(chunks))

\* what chunkArray(array, size) is said to return
ChunksOf(array, size, chunks) ==
  LET k == Len(chunks) IN
  /\ k = CeilDiv(Len(array), size)
  /\ \A j \in 1..k :
       /\ Len(chunks[j]) <= size
       /\ j < k => Len(chunks[j]) = size
  /\ Concat(chunks) = array
  /\ array = << >> => chunks = << >>

\* C30: chunkArray(array, size) with size >= 1 terminates, and what it returns is
\* ceil(len/size) chunks, each of length <= size and all but possibly the last
\* of length exactly size, whose concatenation is the input in its order; for
\* the empty array it returns no chunks.  The closed form of the loop used for
\* sendBatch returns the same chunks.
C30_ChunkArray ==
  /\ [](run.phase = "returned" =>
          /\ ChunksOf(run.array, run.size, run.chunks)
          /\ run.chunks = chunkArray(run.array, run.size))
  /\ <>(run.phase = "returned")

\* five elements in chunks of two: two full chunks and a last chunk of one
C30_Witness ==
  /\ run.phase = "returned"
  /\ Len(run.array) = 5 /\ run.size = 2
  /\ Len(run.chunks) = 3
  /\ Len(run.chunks[1]) = 2 /\ Len(run.chunks[2]) = 2 /\ Len(run.chunks[3]) = 1
  /\ run.array = << "a", "b", "b", "a", "b" >>
  /\ run.chunks = << << "a", "b" >>, << "b", "a" >>, << "b" >> >>

\* --------------------------------------------------------------------- C31
\* C31: the timer exists from construction exactly when batching is enabled; no
\* step creates one afterwards, the only step that removes it is a destroy(), and
\* every destroy() leaves the client without one.  So in every state the timer
\* is active iff batching is enabled and destroy() has not been called.
C31_TimerLifecycle ==
  /\ flushTimer = config.enableBatching
  /\ [][ /\ config' = config
         /\ flushTimer' # flushTimer => (flushTimer /\ ~flushTimer' /\ Destroy)
         /\ Destroy => ~flushTimer'
     ]_vars

\* a batching client after destroy(): the final flush took event 1, event 2 was
\* queued afterwards, and there is no timer
C31_Witness ==
  /\ config.enableBatching /\ config.batchSize = 2 /\ ~flushTimer
  /\ Len(tasks) = 1 /\ tasks[1].origin = "destroy" /\ tasks[1].events = << 1 >>
  /\ eventBatch = << 2 >>

\* --------------------------------------------------------------------- C32
\* what a call of sendBatch leaves alone and what it starts: the queue and the
\* timer are as before, and the one submission it starts (none for the empty
\* array) carries the array passed in and nothing that was queued
SendBatchFrame ==
  LET passed == Interval(nextEvent + 1, nextEvent') IN
  /\ eventBatch' = eventBatch
  /\ flushTimer' = flushTimer
  /\ Len(tasks') = Len(tasks) + (IF passed = << >> THEN 0 ELSE 1)
  /\ \A t \in DOMAIN tasks' :
       t \notin DOMAIN tasks =>
         /\ tasks'[t].origin = "sendBatch"
         /\ tasks'[t].events = passed
         /\ Range(tasks'[t].events) \cap Range(eventBatch) = {}
  /\ \A t \in DOMAIN tasks : tasks'[t] = tasks[t]
  /\ \A q \in BagToSet(requests') :
       CopiesIn(q, requests') > CopiesIn(q, requests) =>
         q.body = Payload(passed)

\* C32: whatever the queue holds, a call of sendBatch leaves the queue and the
\* timer as they are, starts no flush, and submits its own array only; no
\* submission of sendBatch ever carries an event that sendEvent queued, and no
\* drain ever carries an event that was passed to sendBatch.
C32_SendBatchIndependent ==
  /\ ~ENABLED (SendBatch /\ ~SendBatchFrame)
  /\ \A t \in DOMAIN tasks : \A e \in Range(tasks[t].events) :
       (tasks[t].origin = "sendBatch") <=> (sendEventResult[e] = "none")
  /\ \A e \in Range(eventBatch) : sendEventResult[e] # "none"

\* sendBatch([2, 3]) was called with event 1 in the queue: its submission
\* carries 2 and 3, and event 1 is still queued
C32_Witness ==
  /\ config.batchSize = 2 /\ eventBatch = << 1 >> /\ flushTimer
  /\ Len(tasks) = 1 /\ tasks[1].origin = "sendBatch"
  /\ tasks[1].events = << 2, 3 >>
  /\ \A q \in BagToSet(requests) : q.body = Payload(<< 2, 3 >>)

\* --------------------------------------------------------------------- C33
\* submissions sleeping between two attempts
Waiting == { t \in DOMAIN tasks : tasks[t].r.pc = "waiting" }

\* s is the result of a drain of the current queue by origin: the queue is
\* empty, one more submission exists with the queued events and a retry loop of
\* its own, and the submissions under way are untouched
StartsOwnSubmission(s, origin) ==
  LET t == Len(tasks) + 1 IN
  /\ s.eventBatch = << >>
  /\ Len(s.tasks) = t
  /\ s.tasks[t].origin = origin /\ s.tasks[t].events = eventBatch
  /\ s.tasks[t].r = RetryEnter(config.retryAttempts, InitialLastError)
  /\ s.requests = Issue(requests, Request(t, 0, Payload(eventBatch)))
  /\ \A u \in DOMAIN tasks : s.tasks[u] = tasks[u]

\* C33: while a submission waits between attempts, a sendEvent call is accepted
\* at once (queued, or drained with the queue when it fills it), flush(), a timer
\* tick and destroy() drain a non-empty queue and start their own submission
\* with its first request, destroy() clears the timer, and the waiting
\* submission stays as it is.
C33_BackoffDoesNotBlock ==
  Waiting # {} =>
    /\ LET e == nextEvent + 1
           s == queueOrSendEvent(e)
       IN  IF Len(eventBatch) + 1 < config.batchSize
           THEN s = [eventBatch |-> Append(eventBatch, e), tasks |-> tasks,
                     requests |-> requests]
           ELSE /\ s.eventBatch = << >>
                /\ s.tasks[Len(s.tasks)].events = Append(eventBatch, e)
                /\ \A u \in DOMAIN tasks : s.tasks[u] = tasks[u]
    /\ eventBatch # << >> =>
         /\ StartsOwnSubmission(flush(eventBatch, tasks, requests, "flush"), "flush")
         /\ StartsOwnSubmission(flush(eventBatch, tasks, requests, "destroy"),
                                "destroy")
         /\ flushTimer =>
              StartsOwnSubmission(timerCallback(eventBatch, tasks, requests), "timer")
    /\ Cardinality(InFlight) < MaxInFlight =>
         /\ ENABLED (Destroy /\ ~flushTimer' /\ eventBatch' = << >>)
         /\ ~ENABLED (Destroy /\ (flushTimer' \/ eventBatch' # << >>))

\* the first submission failed once and sleeps before its second attempt; a
\* second submission, started meanwhile, has already returned, and event 3 has
\* been queued
C33_Witness ==
  /\ config.batchSize = 1 \/ config.batchSize = 2
  /\ Len(tasks) = 2
  /\ tasks[1].r.pc = "waiting" /\ tasks[1].r.i = 0
  /\ tasks[1].events = << 1 >>
  /\ tasks[2].r.pc = "returned" /\ tasks[2].events = << 2 >>
  /\ eventBatch = << 3 >>
  /\ StartsOwnSubmission(flush(eventBatch, tasks, requests, "flush"), "flush")

\* --------------------------------------------------------------------- C34
\* a destroy() step changes no submission under way and withdraws no request
DestroyLeavesWork ==
  /\ \A t \in DOMAIN tasks : tasks'[t] = tasks[t]
  /\ requests \sqsubseteq requests'

\* when destroy() returns from a non-empty queue, the final flush has drained
\* the queue and (with withCall) issued its first request, and its submission is
\* still under way
DestroyReturnsEarly(withCall) ==
  LET t == Len(tasks) + 1 IN
  eventBatch # << >> =>
    /\ eventBatch' = << >>
    /\ Len(tasks') = t
    /\ tasks'[t].origin = "destroy" /\ tasks'[t].events = eventBatch
    /\ withCall =>
         /\ tasks'[t].r.pc = "calling" /\ tasks'[t].r.i = 0
         /\ tasks'[t].outcome = "pending"
         /\ requests' = Issue(requests, Request(t, 0, Payload(eventBatch)))

\* a submission under way goes on as it would without destroy(): an answer to
\* its request in flight is taken, a success ends it, and a wait ends in the
\* next attempt
GoesOn(t) ==
  /\ tasks[t].r.pc = "calling" =>
       /\ ENABLED (RespondWith(t, OkResponse) /\ tasks'[t].r.pc = "returned")
       /\ ENABLED (RespondWith(t, NetworkError)
                     /\ tasks'[t].r.lastError = fetchAttempt(NetworkError).error)
  /\ tasks[t].r.pc = "waiting" =>
       ENABLED (BackoffElapsed /\ tasks'[t].r.pc = "calling"
                  /\ tasks'[t].r.i = tasks[t].r.i + 1)

\* no submission gives up before it has made all its attempts
NeverCutShort ==
  \A t \in DOMAIN tasks :
    tasks[t].r.pc = "thrown" => Attempts(t) = config.retryAttempts

\* C34 as stated: destroy() changes no request or retry sequence under way, which
\* goes on to its normal completion afterwards, and when destroy() returns from
\* a non-empty queue only the drain and the first request of the final flush
\* are done, its submission still being under way.
C34_Original ==
  /\ ~ENABLED (Destroy /\ ~(DestroyLeavesWork /\ DestroyReturnsEarly(TRUE)))
  /\ ~flushTimer => \A t \in InFlight : GoesOn(t)
  /\ NeverCutShort

\* C34 amended: the same, the final flush having issued its first request and
\* being under way when retryAttempts is at least 1.
C34_DestroyDoesNotCancel ==
  /\ ~ENABLED (Destroy /\ ~(DestroyLeavesWork
                               /\ DestroyReturnsEarly(config.retryAttempts >= 1)))
  /\ ~flushTimer => \A t \in InFlight : GoesOn(t)
  /\ NeverCutShort

\* destroy() was called while the submission of events 1 and 2 slept before its
\* second attempt: the final flush has posted event 3, and the first submission
\* has since made its second attempt and returned
C34_Witness ==
  /\ ~flushTimer /\ config.batchSize = 2 /\ config.retryAttempts = 2
  /\ Len(tasks) = 2
  /\ tasks[1].events = << 1, 2 >> /\ tasks[1].r.pc = "returned" /\ tasks[1].r.i = 1
  /\ Attempts(1) = 2
  /\ tasks[2].origin = "destroy" /\ tasks[2].events = << 3 >>
  /\ tasks[2].r.pc = "calling" /\ tasks[2].r.i = 0

\* --------------------------------------------------------------------- C35
\* drained batches whose submission has used up its retries
FailedDrains ==
  { t \in DOMAIN tasks :
      tasks[t].r.pc = "thrown" /\ tasks[t].origin # "sendBatch" }

\* C35: the events of a drained batch whose submission failed for good are not in
\* the queue, which holds only events enqueued after them; they are in no other
\* submission, whatever flush, tick or destroy started it; every request that
\* carries one of them belongs to the failed submission, which made no more
\* than its retryAttempts attempts.
C35_FailedBatchDropped ==
  config.enableBatching =>
    \A t \in FailedDrains :
      /\ Before(tasks[t].events, eventBatch)
      /\ Attempts(t) = config.retryAttempts
      /\ \A e \in Range(tasks[t].events) :
           /\ e \notin Range(eventBatch)
           /\ \A u \in DOMAIN tasks : u # t => e \notin Range(tasks[u].events)
           /\ \A q \in BagToSet(requests) :
                e \in Range(q.body.events) => q.task = t

\* the submission of event 1 failed twice and was given up; event 2, enqueued
\* afterwards, left alone in a later flush, and the queue is empty
C35_Witness ==
  /\ config.enableBatching /\ config.retryAttempts = 2
  /\ Len(tasks) = 2
  /\ 1 \in FailedDrains /\ tasks[1].events = << 1 >> /\ Attempts(1) = 2
  /\ tasks[2].origin \in {"flush", "timer", "destroy"}
  /\ tasks[2].events = << 2 >> /\ tasks[2].r.pc = "returned"
  /\ eventBatch = << >>

\* --------------------------------------------------------------------- C36
\* the submissions started by the step
StartedNow == DOMAIN tasks' \ DOMAIN tasks

\* a first-attempt request is issued by the step that drains its batch, and by
\* no other; the step of a drain that issues any request issues the first one
FirstRequestWithDrain ==
  /\ \A q \in IssuedNow :
       q.attempt = 0 =>
         /\ q.task \in StartedNow
         /\ eventBatch' = << >>
         /\ q.body = Payload(tasks'[q.task].events)
         /\ \A p \in BagToSet(requests) : p.task < q.task
  /\ \A t \in StartedNow :
       config.retryAttempts >= 1 =>
         IssuedNow = { Request(t, 0, Payload(tasks'[t].events)) }

\* C36: on a batching client each step that drains the queue issues the first
\* request of the drained batch itself, so first requests appear in the order
\* of the drains; and among the submissions with a request in flight any one,
\* earlier or later, may be the next to be answered.
C36_FirstRequestInDrainStep ==
  /\ [][FirstRequestWithDrain]_vars
  /\ [](\A t \in InFlight :
          tasks[t].r.pc = "calling" =>
            ENABLED (RespondWith(t, OkResponse) /\ tasks'[t].r.pc = "returned"))

\* two drains, first requests in that order; the second batch has been delivered
\* while the first, after a failure and a wait, is at its second attempt
C36_Witness ==
  /\ Len(tasks) = 2
  /\ tasks[1].r.pc = "calling" /\ tasks[1].r.i = 1
  /\ tasks[2].r.pc = "returned" /\ tasks[2].r.i = 0
  /\ CopiesIn(Request(1, 0, Payload(tasks[1].events)), requests) = 1
  /\ CopiesIn(Request(1, 1, Payload(tasks[1].events)), requests) = 1
  /\ CopiesIn(Request(2, 0, Payload(tasks[2].events)), requests) = 1

\* --------------------------------------------------------------------- C37
\* C37: between the steps of a batching client the queue holds fewer than
\* batchSize events: the sendEvent call that would make it reach batchSize
\* leaves it empty, its submission taking the queued events and the new one, and
\* any other sendEvent call lengthens it by one.
C37_QueueBelowBatchSize ==
  (config.enableBatching /\ config.batchSize >= 1) =>
    /\ Len(eventBatch) < config.batchSize
    /\ LET e == nextEvent + 1
           s == queueOrSendEvent(e)
       IN  IF Len(eventBatch) + 1 >= config.batchSize
           THEN /\ s.eventBatch = << >>
                /\ Len(s.tasks) = Len(tasks) + 1
                /\ s.tasks[Len(s.tasks)].events = Append(eventBatch, e)
           ELSE /\ s.eventBatch = Append(eventBatch, e)
                /\ Len(s.eventBatch) < config.batchSize
                /\ s.tasks = tasks
    /\ ~ENABLED (SendEvent /\ Len(eventBatch') >= config.batchSize)

\* batchSize 2: the second sendEvent emptied the queue, and the third event is
\* alone in it
C37_Witness ==
  /\ config.enableBatching /\ config.batchSize = 2
  /\ Len(tasks) = 1 /\ tasks[1].origin = "sendEvent" /\ tasks[1].caller = 2
  /\ tasks[1].events = << 1, 2 >>
  /\ eventBatch = << 3 >>

\* --------------------------------------------------------------------- C38
\* event e has left the queue in a drained batch
Drained(e) == \E t \in DOMAIN tasks : e \in Range(tasks[t].events)

\* event e has been handed to the transport: a request carries it
HandedOver(e) == \E q \in BagToSet(requests) : e \in Range(q.body.events)

Destroyed == config.enableBatching /\ ~flushTimer

\* C39: on a batching client after destroy(), sendEvent is still accepted -- the
\* event is appended to the queue, or leaves with it when it brings the length
\* to batchSize -- and does not bring the timer back; no tick fires; the answers
\* and backoff waits of earlier submissions leave the queue alone; so queued
\* events stay where they are until a sendEvent fills the queue or flush() or
\* destroy() is called, either of which sends them.
C39_AfterDestroy ==
  Destroyed =>
    /\ LET e == nextEvent + 1
           s == queueOrSendEvent(e)
       IN  IF Len(eventBatch) + 1 < config.batchSize
           THEN s = [eventBatch |-> Append(eventBatch, e), tasks |-> tasks,
                     requests |-> requests]
           ELSE /\ s.eventBatch = << >>
                /\ s.tasks[Len(s.tasks)].events = Append(eventBatch, e)
                /\ s.tasks[Len(s.tasks)].origin = "sendEvent"
    /\ ~ENABLED (SendEvent /\ flushTimer')
    /\ ~ENABLED TimerTick
    /\ ~ENABLED (Respond /\ eventBatch' # eventBatch)
    /\ ~ENABLED (BackoffElapsed /\ eventBatch' # eventBatch)
    /\ eventBatch # << >> =>
         /\ flush(eventBatch, tasks, requests, "flush").eventBatch = << >>
         /\ LET s == flush(eventBatch, tasks, requests, "destroy")
            IN  s.eventBatch = << >> /\ s.tasks[Len(s.tasks)].events = eventBatch
    /\ \A t \in DOMAIN tasks :
         tasks[t].origin = "timer" =>
           \A u \in DOMAIN tasks : tasks[u].origin = "destroy" => t < u

\* after destroy() had flushed event 1, event 2 was queued and left only with a
\* manual flush(); event 3, queued since, stays in the queue without a timer
C39_Witness ==
  /\ Destroyed /\ config.batchSize = 2
  /\ Len(tasks) = 2
  /\ tasks[1].origin = "destroy" /\ tasks[1].events = << 1 >>
  /\ tasks[2].origin = "flush" /\ tasks[2].events = << 2 >>
  /\ eventBatch = << 3 >>
  /\ ~ENABLED TimerTick

\* --------------------------------------------------------------------- C40
\* every request of a submission started from the queue carries the batch that
\* was drained, in its order, whatever was enqueued since
DrainedPayloadFixed ==
  \A q \in BagToSet(requests) :
    tasks[q.task].origin # "sendBatch" =>
      q.body = Payload(tasks[q.task].events)

\* C40: every request of a submission, first attempt or retry, carries the event
\* sequence the submission was started with, whatever was enqueued and whatever
\* the caller did to the array it passed to sendBatch in the meantime.
C40_SamePayload ==
  \A q \in BagToSet(requests) : q.body = Payload(tasks[q.task].events)

====
